---- MODULE Spec2Model ----
(***************************************************************************)
(* Model of the budget flow diagram (components/BudgetSankey.tsx): the     *)
(* graph builder, the column layout, the link router and the drag /        *)
(* highlight controller, as one state machine; and of the autosave of the  *)
(* budget page that shows it (app/budgets/[id]/page.tsx).                  *)
(*                                                                         *)
(* JavaScript numbers are binary floating point.  They are modelled as     *)
(* binary floating point of MantBits significant bits (a double has 53),   *)
(* round to nearest, ties to even, with an unbounded exponent: a number is *)
(* the record [m, e] that stands for m * 2^e, with m = 0 /\ e = 0 or       *)
(* 2^(MantBits-1) <= |m| < 2^MantBits, so that equal numbers are equal     *)
(* records.  NaN, Infinity and -Infinity are three more records, with the  *)
(* arithmetic and the comparisons of IEEE 754; no finite operation of the  *)
(* model overflows, so they arise from parseFloat (NaN, replaced by 0 in   *)
(* toNum, and "Infinity", which toNum keeps) and from operations on them.  *)
(***************************************************************************)
EXTENDS Integers, Sequences, FiniteSets, TLC

\* Significant bits of a number (53 in the program's doubles).
MantBits == 10

\* 2^n, for n <= 30
Pow2Table == <<1, 2, 4, 8, 16, 32, 64, 128, 256, 512, 1024, 2048, 4096, 8192,
               16384, 32768, 65536, 131072, 262144, 524288, 1048576, 2097152,
               4194304, 8388608, 16777216, 33554432, 67108864, 134217728,
               268435456, 536870912, 1073741824>>
Pow2(n) == IF n <= 0 THEN 1 ELSE Pow2Table[n + 1]

RECURSIVE Pow10(_)
Pow10(n) == IF n <= 0 THEN 1 ELSE 10 * Pow10(n - 1)

MantLimit == Pow2(MantBits)
MantMin == Pow2(MantBits - 1)

Zero == [m |-> 0, e |-> 0]

RECURSIVE Excess(_)
Excess(q) ==
    IF q < MantLimit THEN 0
    ELSE IF q >= 16 * MantLimit THEN 4 + Excess(q \div 16)
    ELSE 1 + Excess(q \div 2)

RECURSIVE NormUp(_, _)
NormUp(q, e) == IF q >= MantMin THEN [m |-> q, e |-> e] ELSE NormUp(2 * q, e - 1)

\* The number nearest to (q + f) * 2^e, where 0 <= f < 1 and f > 0 iff sticky
\* (sticky only with q >= MantLimit): round to nearest, ties to even.
RoundMag(q, sticky, e) ==
    IF q = 0 THEN Zero
    ELSE IF q < MantLimit THEN NormUp(q, e)
    ELSE LET k == Excess(q)
             d == Pow2(k)
             m0 == q \div d
             r == q % d
             half == d \div 2
             up == r > half \/ (r = half /\ (sticky \/ m0 % 2 = 1))
             m1 == IF up THEN m0 + 1 ELSE m0
         IN  IF m1 = MantLimit THEN [m |-> MantMin, e |-> e + k + 1]
             ELSE [m |-> m1, e |-> e + k]

\* The results that are no finite number (records no finite number has).
NaN == [m |-> 0, e |-> 1]
Infinity == [m |-> 1, e |-> 1]
NegInfinity == [m |-> -1, e |-> 1]

\* !Number.isFinite(a)
NotFinite(a) == a.e = 1 /\ a.m < 2 /\ a.m > -2

NumNeg(a) == [m |-> 0 - a.m, e |-> a.e]

IAbs(n) == IF n < 0 THEN 0 - n ELSE n

\* The number nearest to the integer n times 2^e.
NumRound(n, e) ==
    IF n < 0 THEN NumNeg(RoundMag(0 - n, FALSE, e)) ELSE RoundMag(n, FALSE, e)

\* The number nearest to (n / d) * 2^e, for n >= 0 and d > 0.
RECURSIVE QuotMag(_, _, _)
QuotMag(n, d, e) ==
    IF n = 0 THEN Zero
    ELSE IF n \div d >= 2 * MantLimit THEN RoundMag(n \div d, n % d # 0, e)
    ELSE QuotMag(2 * n, d, e - 1)

NumOfInt(n) == NumRound(n, 0)

\* a + b where a or b is not finite
AddNotFinite(a, b) ==
    IF a = NaN \/ b = NaN THEN NaN
    ELSE IF ~NotFinite(a) THEN b
    ELSE IF NotFinite(b) /\ b # a THEN NaN
    ELSE a

\* a * b where a or b is not finite
MulNotFinite(a, b) ==
    IF a.m = 0 \/ b.m = 0 THEN NaN
    ELSE IF (a.m < 0) # (b.m < 0) THEN NegInfinity ELSE Infinity

\* a / b where a or b is not finite or b is 0 (the model's 0 is +0)
DivNotFinite(a, b) ==
    IF a = NaN \/ b = NaN THEN NaN
    ELSE IF NotFinite(a) /\ NotFinite(b) THEN NaN
    ELSE IF NotFinite(b) THEN Zero
    ELSE IF a.m = 0 THEN NaN
    ELSE IF (a.m < 0) # (b.m < 0) THEN NegInfinity ELSE Infinity

\* a < b where a or b is not finite
LtNotFinite(a, b) ==
    a # NaN /\ b # NaN /\ a # b /\ (a = NegInfinity \/ b = Infinity)

\* a + b
NumAdd(a, b) ==
    IF NotFinite(a) \/ NotFinite(b) THEN AddNotFinite(a, b)
    ELSE IF a.m = 0 THEN b
    ELSE IF b.m = 0 THEN a
    ELSE IF a.e - b.e > MantBits + 1 THEN a
    ELSE IF b.e - a.e > MantBits + 1 THEN b
    ELSE LET lo == IF a.e < b.e THEN a.e ELSE b.e
         IN  NumRound(a.m * Pow2(a.e - lo) + b.m * Pow2(b.e - lo), lo)

\* a - b
NumSub(a, b) == NumAdd(a, NumNeg(b))

\* a * b
NumMul(a, b) ==
    IF NotFinite(a) \/ NotFinite(b) THEN MulNotFinite(a, b)
    ELSE NumRound(a.m * b.m, a.e + b.e)

\* a / b
NumDiv(a, b) ==
    IF b.m = 0 \/ NotFinite(a) \/ NotFinite(b) THEN DivNotFinite(a, b)
    ELSE LET q == QuotMag(IAbs(a.m) * Pow2(MantBits + 2), IAbs(b.m),
                          a.e - b.e - (MantBits + 2))
         IN  IF (a.m < 0) # (b.m < 0) THEN NumNeg(q) ELSE q

\* a < b, a <= b, a > b, a >= b
NumLt(a, b) ==
    IF NotFinite(a) \/ NotFinite(b) THEN LtNotFinite(a, b)
    ELSE IF a.m = 0 THEN b.m > 0
    ELSE IF b.m = 0 THEN a.m < 0
    ELSE IF (a.m < 0) # (b.m < 0) THEN a.m < 0
    ELSE IF a.e # b.e THEN (a.e < b.e) = (a.m > 0)
    ELSE a.m < b.m
NumLe(a, b) == (a = b /\ a # NaN) \/ NumLt(a, b)
NumGt(a, b) == NumLt(b, a)
NumGe(a, b) == NumLe(b, a)

\* Math.max, Math.min, Math.abs
NumMax(a, b) == IF a = NaN \/ b = NaN THEN NaN ELSE IF NumLt(a, b) THEN b ELSE a
NumMin(a, b) == IF a = NaN \/ b = NaN THEN NaN ELSE IF NumLt(b, a) THEN b ELSE a
NumAbs(a) == IF a.m < 0 THEN NumNeg(a) ELSE a

(***************************************************************************)
(* Rows and parseFloat.  A string is a sequence of one-character strings.  *)
(***************************************************************************)

\* The canvas size: the width and height props at their defaults.
width == 900
height == 420

marginTop == 24
marginRight == 40
marginBottom == 24
marginLeft == 40

nodeWidthPx == 18
nodePadding == 10
minNodeHeight == 8

WhiteSpace == {" "}
DigitChars == {"0", "1", "2", "3", "4", "5", "6", "7", "8", "9"}

DigitVal(c) ==
    CASE c = "0" -> 0 [] c = "1" -> 1 [] c = "2" -> 2 [] c = "3" -> 3
      [] c = "4" -> 4 [] c = "5" -> 5 [] c = "6" -> 6 [] c = "7" -> 7
      [] c = "8" -> 8 [] OTHER -> 9

RECURSIVE TrimStart(_)
TrimStart(s) ==
    IF s # <<>> /\ Head(s) \in WhiteSpace THEN TrimStart(Tail(s)) ELSE s

RECURSIVE DigitPrefix(_)
DigitPrefix(s) ==
    IF s # <<>> /\ Head(s) \in DigitChars
    THEN <<Head(s)>> \o DigitPrefix(Tail(s))
    ELSE <<>>

RECURSIVE DigitsValue(_)
DigitsValue(ds) ==
    IF ds = <<>> THEN 0
    ELSE 10 * DigitsValue(SubSeq(ds, 1, Len(ds) - 1)) + DigitVal(ds[Len(ds)])

\* parseFloat: leading white space is skipped, then the longest prefix that
\* is a decimal literal (sign, digits, a point, digits) is converted to the
\* nearest number, and the prefix "Infinity" to Infinity; with no such
\* prefix the result is NaN.  The strings of the model hold no exponent
\* part.
InfinityLiteral == <<"I", "n", "f", "i", "n", "i", "t", "y">>

parseFloat(str) ==
    LET t == TrimStart(str)
        signed == t # <<>> /\ Head(t) \in {"-", "+"}
        neg == t # <<>> /\ Head(t) = "-"
        u == IF signed THEN Tail(t) ELSE t
        ip == DigitPrefix(u)
        rest == SubSeq(u, Len(ip) + 1, Len(u))
        fp == IF rest # <<>> /\ Head(rest) = "." THEN DigitPrefix(Tail(rest)) ELSE <<>>
        mag == QuotMag(DigitsValue(ip \o fp), Pow10(Len(fp)), 0)
    IN  IF Len(u) >= 8 /\ SubSeq(u, 1, 8) = InfinityLiteral
        THEN (IF neg THEN NegInfinity ELSE Infinity)
        ELSE IF ip = <<>> /\ fp = <<>> THEN NaN
        ELSE IF neg THEN NumNeg(mag) ELSE mag

toNum(s) ==
    LET n == parseFloat(s)
    IN  IF n = NaN THEN Zero ELSE n

(***************************************************************************)
(* Graph builder.  A node id is a pair: <<"inc", row id>>, <<"exp", row    *)
(* id>>, or one of the three fixed ids below.  Labels only name the nodes  *)
(* on screen and are left out.                                             *)
(***************************************************************************)

DebtId == <<"debt", 0>>
BudgetId == <<"budget", 0>>
SavingsId == <<"savings", 0>>

\* The numbers the program's constants stand for.
One == NumOfInt(1)
Two == NumOfInt(2)
top == NumOfInt(marginTop)
left == NumOfInt(marginLeft)
padding == NumOfInt(nodePadding)
minHeight == NumOfInt(minNodeHeight)
nodeWidth == NumOfInt(nodeWidthPx)

innerWidth == NumMax(NumOfInt(10), NumOfInt(width - marginLeft - marginRight))
innerHeight == NumMax(NumOfInt(10), NumOfInt(height - marginTop - marginBottom))

\* rows.map(...).filter((d) => d.value > 0)
\* Entries keeping the rows whose amount is 0.
Entries_KeepZero(rows, prefix) ==
    SelectSeq([i \in 1..Len(rows) |->
                  [id |-> <<prefix, rows[i].id>>, value |-> toNum(rows[i].value)]],
              LAMBDA d : NumGe(d.value, Zero))

Entries(rows, prefix) ==
    SelectSeq([i \in 1..Len(rows) |->
                  [id |-> <<prefix, rows[i].id>>, value |-> toNum(rows[i].value)]],
              LAMBDA d : NumGt(d.value, Zero))

incomes(incomeRows) == Entries(incomeRows, "inc")
expenses(expenseRows) == Entries(expenseRows, "exp")

\* d3.sum over the values of a sequence of records, left to right from 0.
RECURSIVE d3sum(_)
d3sum(ds) ==
    IF ds = <<>> THEN Zero
    ELSE NumAdd(d3sum(SubSeq(ds, 1, Len(ds) - 1)), ds[Len(ds)].value)

\* d3.max over the values of a sequence of records (Zero when it is empty,
\* where d3.max is undefined and the caller substitutes 1).
RECURSIVE d3max(_)
d3max(ds) ==
    IF ds = <<>> THEN Zero
    ELSE NumMax(d3max(SubSeq(ds, 1, Len(ds) - 1)), ds[Len(ds)].value)

\* debtTotalOf with the deficit taken to be the whole expense total.
debtTotalOf_NoSubtraction(totalIncome, totalExpense) ==
    IF NumGt(totalExpense, totalIncome) THEN totalExpense ELSE Zero

debtTotalOf(totalIncome, totalExpense) ==
    IF NumGt(totalExpense, totalIncome) THEN NumSub(totalExpense, totalIncome) ELSE Zero

savingsTotalOf(totalIncome, totalExpense) ==
    IF NumGt(totalExpense, totalIncome) THEN Zero ELSE NumSub(totalIncome, totalExpense)

budgetInTotalOf(totalIncome, debtTotal) == NumAdd(totalIncome, debtTotal)

nodesRawOf(inc, exp, debtTotal, savingsTotal, budgetInTotal) ==
    [i \in 1..Len(inc) |-> [id |-> inc[i].id, type |-> "income", value |-> inc[i].value]]
    \o (IF NumGt(debtTotal, Zero)
        THEN <<[id |-> DebtId, type |-> "debt", value |-> debtTotal]>> ELSE <<>>)
    \o <<[id |-> BudgetId, type |-> "pool", value |-> budgetInTotal]>>
    \o [i \in 1..Len(exp) |-> [id |-> exp[i].id, type |-> "expense", value |-> exp[i].value]]
    \o (IF NumGt(savingsTotal, Zero)
        THEN <<[id |-> SavingsId, type |-> "savings", value |-> savingsTotal]>> ELSE <<>>)

\* linksOf without the link from the Debt node.
linksOf_NoDebtLink(inc, exp, debtTotal, savingsTotal) ==
    SelectSeq([i \in 1..Len(inc) |->
                  [source |-> inc[i].id, target |-> BudgetId, value |-> inc[i].value]],
              LAMBDA l : NumGt(l.value, Zero))
    \o SelectSeq([i \in 1..Len(exp) |->
                  [source |-> BudgetId, target |-> exp[i].id, value |-> exp[i].value]],
              LAMBDA l : NumGt(l.value, Zero))
    \o (IF NumGt(savingsTotal, Zero)
        THEN <<[source |-> BudgetId, target |-> SavingsId, value |-> savingsTotal]>> ELSE <<>>)

linksOf(inc, exp, debtTotal, savingsTotal) ==
    SelectSeq([i \in 1..Len(inc) |->
                  [source |-> inc[i].id, target |-> BudgetId, value |-> inc[i].value]],
              LAMBDA l : NumGt(l.value, Zero))
    \o (IF NumGt(debtTotal, Zero)
        THEN <<[source |-> DebtId, target |-> BudgetId, value |-> debtTotal]>> ELSE <<>>)
    \o SelectSeq([i \in 1..Len(exp) |->
                  [source |-> BudgetId, target |-> exp[i].id, value |-> exp[i].value]],
              LAMBDA l : NumGt(l.value, Zero))
    \o (IF NumGt(savingsTotal, Zero)
        THEN <<[source |-> BudgetId, target |-> SavingsId, value |-> savingsTotal]>> ELSE <<>>)

IdsOf(ds) == {ds[i].id : i \in 1..Len(ds)}

\* Sum, in link order from 0, of the values of the links whose end `side`
\* ("source" or "target") is the node id.
RECURSIVE FlowSum(_, _, _)
FlowSum(links, side, id) ==
    IF links = <<>> THEN Zero
    ELSE LET l == links[Len(links)]
             before == FlowSum(SubSeq(links, 1, Len(links) - 1), side, id)
         IN  IF (IF side = "source" THEN l.source ELSE l.target) = id
             THEN NumAdd(before, l.value) ELSE before

nodeOutOf(nodesRaw, links) == [id \in IdsOf(nodesRaw) |-> FlowSum(links, "source", id)]
nodeInOf(nodesRaw, links) == [id \in IdsOf(nodesRaw) |-> FlowSum(links, "target", id)]

\* The value recomputed without the outbound sum.
NodeValue_NoOutflow(vIn, vOut, declared) == NumMax(vIn, declared)

\* Math.max(vIn, vOut, n.value || 0)
NodeValue(vIn, vOut, declared) == NumMax(NumMax(vIn, vOut), declared)

nodesOf(nodesRaw, nodeIn, nodeOut) ==
    [i \in 1..Len(nodesRaw) |->
        [nodesRaw[i] EXCEPT !.value =
            NodeValue(nodeIn[nodesRaw[i].id], nodeOut[nodesRaw[i].id], nodesRaw[i].value)]]

(***************************************************************************)
(* Column layout.                                                          *)
(***************************************************************************)

columnsOf(nodes) ==
    LET sources == SelectSeq(nodes, LAMBDA n : n.type \in {"income", "debt"})
        budgetNodes == SelectSeq(nodes, LAMBDA n : n.type = "pool")
        outs == SelectSeq(nodes, LAMBDA n : n.type \in {"expense", "savings"})
    IN  (IF sources # <<>> THEN <<[key |-> "source", nodes |-> sources]>> ELSE <<>>)
        \o (IF budgetNodes # <<>> THEN <<[key |-> "budget", nodes |-> budgetNodes]>> ELSE <<>>)
        \o (IF outs # <<>> THEN <<[key |-> "out", nodes |-> outs]>> ELSE <<>>)

colSpacingOf(nCol) ==
    IF nCol > 1 THEN NumDiv(innerWidth, NumOfInt(nCol - 1)) ELSE Zero

\* nodePadding * Math.max(colNodes.length - 1, 0)
padOf(count) == NumMul(padding, NumOfInt(IF count - 1 > 0 THEN count - 1 ELSE 0))

RECURSIVE kyCandidatesOf(_)
kyCandidatesOf(columns) ==
    IF columns = <<>> THEN <<>>
    ELSE LET col == columns[Len(columns)]
             totalVal == d3sum(col.nodes)
             pad == padOf(Len(col.nodes))
             before == kyCandidatesOf(SubSeq(columns, 1, Len(columns) - 1))
         IN  IF NumGt(totalVal, Zero) /\ NumGt(innerHeight, pad)
             THEN Append(before, NumDiv(NumSub(innerHeight, pad), totalVal))
             ELSE before

RECURSIVE d3min(_)
d3min(xs) ==
    IF Len(xs) = 1 THEN xs[1]
    ELSE NumMin(d3min(SubSeq(xs, 1, Len(xs) - 1)), xs[Len(xs)])

kyOf(columns, nodes) ==
    LET cands == kyCandidatesOf(columns)
        most == d3max(nodes)
        ky0 == IF cands # <<>> THEN d3min(cands)
               ELSE NumDiv(innerHeight, IF most = Zero THEN One ELSE most)
    IN  IF NotFinite(ky0) \/ NumLe(ky0, Zero) THEN One ELSE ky0

\* Math.max(minNodeHeight, n.value * ky)
\* NodeHeight without the minimum.
NodeHeight_NoMinimum(value, ky) == NumMul(value, ky)

NodeHeight(value, ky) == NumMax(minHeight, NumMul(value, ky))

\* The y of each node of a column stacked from yPos on, top to bottom:
\* yPos += height + nodePadding after each node.
RECURSIVE StackFrom(_, _)
StackFrom(heights, yPos) ==
    IF heights = <<>> THEN <<>>
    ELSE <<yPos>> \o StackFrom(Tail(heights),
                               NumAdd(yPos, NumAdd(Head(heights), padding)))

ColumnIndex(columns, id) ==
    CHOOSE ci \in 1..Len(columns) : id \in IdsOf(columns[ci].nodes)

IndexIn(ids, id) == CHOOSE i \in 1..Len(ids) : ids[i] = id

\* The NodeLayout of every node after the initial layout, by node id.
nodesLayoutOf(columns, ky) ==
    LET colSpacing == colSpacingOf(Len(columns))
        all == UNION {IdsOf(columns[ci].nodes) : ci \in 1..Len(columns)}
        layoutOf(id) ==
            LET ci == ColumnIndex(columns, id)
                col == columns[ci]
                i == IndexIn([k \in 1..Len(col.nodes) |-> col.nodes[k].id], id)
                n == col.nodes[i]
                hs == [k \in 1..Len(col.nodes) |-> NodeHeight(col.nodes[k].value, ky)]
            IN  [id |-> n.id, type |-> n.type, value |-> n.value, colKey |-> col.key,
                 x |-> NumAdd(left, NumMul(NumOfInt(ci - 1), colSpacing)),
                 y |-> StackFrom(hs, top)[i],
                 width |-> nodeWidth,
                 height |-> hs[i]]
    IN  [id \in all |-> layoutOf(id)]

colMapOf(columns) ==
    [key \in {columns[ci].key : ci \in 1..Len(columns)} |->
        LET col == columns[CHOOSE ci \in 1..Len(columns) : columns[ci].key = key]
        IN  [k \in 1..Len(col.nodes) |-> col.nodes[k].id]]

(***************************************************************************)
(* The builder's result for a pair of row lists: which of the effect's     *)
(* returns was taken (shown = "empty" with the line of the return, or      *)
(* "diagram") and everything the effect's closure keeps.                   *)
(***************************************************************************)
NoBuild ==
    [shown |-> "none", returnedAt |-> 0, totalIncome |-> Zero, totalExpense |-> Zero,
     debtTotal |-> Zero, savingsTotal |-> Zero, budgetInTotal |-> Zero,
     nodes |-> <<>>, links |-> <<>>, nodeIn |-> <<>>, nodeOut |-> <<>>,
     columns |-> <<>>, ky |-> Zero]

\* The effect from the columns on (line 236).
BuildColumns(graph, nodes, columns) ==
    IF columns = <<>>
    THEN [NoBuild EXCEPT !.shown = "empty", !.returnedAt = 259,
                         !.totalIncome = graph.totalIncome,
                         !.totalExpense = graph.totalExpense]
    ELSE [graph EXCEPT !.nodes = nodes, !.columns = columns,
                       !.ky = kyOf(columns, nodes)]

BuildLayout(graph, nodes) == BuildColumns(graph, nodes, columnsOf(nodes))

\* The effect from its second 'return' on (line 199), with the nodes and links.
BuildGraph(totalIncome, totalExpense, debtTotal, savingsTotal, budgetInTotal, nodesRaw, links, nodeIn, nodeOut) ==
    BuildLayout([NoBuild EXCEPT !.shown = "diagram",
                                !.totalIncome = totalIncome,
                                !.totalExpense = totalExpense,
                                !.debtTotal = debtTotal,
                                !.savingsTotal = savingsTotal,
                                !.budgetInTotal = budgetInTotal,
                                !.links = links,
                                !.nodeIn = nodeIn,
                                !.nodeOut = nodeOut],
                nodesOf(nodesRaw, nodeIn, nodeOut))

BuildLinks(totalIncome, totalExpense, debtTotal, savingsTotal, budgetInTotal, nodesRaw, links) ==
    IF links = <<>>
    THEN [NoBuild EXCEPT !.shown = "empty", !.returnedAt = 208,
                         !.totalIncome = totalIncome, !.totalExpense = totalExpense]
    ELSE BuildGraph(totalIncome, totalExpense, debtTotal, savingsTotal, budgetInTotal,
                    nodesRaw, links, nodeInOf(nodesRaw, links), nodeOutOf(nodesRaw, links))

BuildNodes(inc, exp, totalIncome, totalExpense, debtTotal, savingsTotal, budgetInTotal) ==
    BuildLinks(totalIncome, totalExpense, debtTotal, savingsTotal, budgetInTotal,
               nodesRawOf(inc, exp, debtTotal, savingsTotal, budgetInTotal),
               linksOf(inc, exp, debtTotal, savingsTotal))

BuildBalance(inc, exp, totalIncome, totalExpense, debtTotal, savingsTotal) ==
    BuildNodes(inc, exp, totalIncome, totalExpense, debtTotal, savingsTotal,
               budgetInTotalOf(totalIncome, debtTotal))

\* BuildTotals giving up as soon as one of the totals is not positive.
BuildTotals_EitherEmpty(inc, exp, totalIncome, totalExpense) ==
    IF NumLe(totalIncome, Zero) \/ NumLe(totalExpense, Zero)
    THEN [NoBuild EXCEPT !.shown = "empty", !.returnedAt = 94,
                         !.totalIncome = totalIncome, !.totalExpense = totalExpense]
    ELSE BuildBalance(inc, exp, totalIncome, totalExpense,
                      debtTotalOf(totalIncome, totalExpense),
                      savingsTotalOf(totalIncome, totalExpense))

BuildTotals(inc, exp, totalIncome, totalExpense) ==
    IF NumLe(totalIncome, Zero) /\ NumLe(totalExpense, Zero)
    THEN [NoBuild EXCEPT !.shown = "empty", !.returnedAt = 94,
                         !.totalIncome = totalIncome, !.totalExpense = totalExpense]
    ELSE BuildBalance(inc, exp, totalIncome, totalExpense,
                      debtTotalOf(totalIncome, totalExpense),
                      savingsTotalOf(totalIncome, totalExpense))

BuildEntries(inc, exp) == BuildTotals(inc, exp, d3sum(inc), d3sum(exp))

\* The effect for a pair of row lists, step by step: each operator above
\* continues the effect with the values computed so far.
Build(incomeRows, expenseRows) ==
    BuildEntries(incomes(incomeRows), expenses(expenseRows))

(***************************************************************************)
(* State.                                                                  *)
(***************************************************************************)
VARIABLES
    page,           \* the budget page: its state, its timers, the storage
    previous,       \* the diagram the last re-render discarded, <<>> if none
    incomeRows,     \* the incomeRows prop: a sequence of [id, value]
    expenseRows,    \* the expenseRows prop
    build,          \* what the effect built (Build), NoBuild before it ran
    nodeById,       \* node id -> NodeLayout (x, y, width, height, ...)
    colMap,         \* column key -> the column's node ids, top to bottom
    snapY,          \* node id -> its _snapY, for the nodes that have one
    linkPaths,      \* the rendered geometry of each link, in link order
    transitions,    \* node id -> its scheduled or running 'move' transitions
    dragging,       \* <<id>> while a drag gesture holds node id, else <<>>
    linkOpacity,    \* the fill-opacity each link is set (or fading) to
    nodeStyle,      \* node id -> the opacity and stroke-width of its rect
    handlers,       \* the listeners the effect installed
    moves,          \* pointer-move events so far (bounds the model)
    drags           \* drag gestures so far (bounds the model)

vars == <<page, previous, incomeRows, expenseRows, build, nodeById, colMap, snapY, linkPaths,
          transitions, dragging, linkOpacity, nodeStyle, handlers, moves, drags>>

(***************************************************************************)
(* Link router.                                                            *)
(***************************************************************************)

\* Accumulators kept across calls: once a call has run, a node's accumulator
\* still holds the slices of that call, which add up to the node's height.
InitialOffset_KeptAcrossCalls(id) ==
    IF linkPaths = <<>> THEN Zero ELSE nodeById[id].height

\* The offset accumulators (nodeSourceOffset, nodeTargetOffset) a call of
\* updateLinkPaths starts from: fresh maps, so 0 for every node.
InitialOffset(id) == Zero

\* a || b for numbers: a unless it is 0 or NaN.
OrElse(a, b) == IF a.m = 0 THEN b ELSE a

\* sTotal, tTotal: the flow a node's slices are fractions of.
sTotalOf(b, layout, l) == OrElse(b.nodeOut[l.source], layout[l.source].value)
tTotalOf(b, layout, l) == OrElse(b.nodeIn[l.target], layout[l.target].value)

\* sliceHeight without the node's height: the bare fraction of the flow.
sliceHeight_BareFraction(value, total, nodeHeight) ==
    IF NumGt(total, Zero) THEN NumDiv(value, total) ELSE Zero

\* sH, tH: total > 0 ? (l.value / total) * node.height : 0
sliceHeight(value, total, nodeHeight) ==
    IF NumGt(total, Zero) THEN NumMul(NumDiv(value, total), nodeHeight) ELSE Zero

\* The geometry of the links from the i-th on, with the offsets used so far.
RECURSIVE RouteFrom(_, _, _, _, _)
RouteFrom(b, layout, i, sOff, tOff) ==
    IF i > Len(b.links) THEN <<>>
    ELSE LET l == b.links[i]
             source == layout[l.source]
             target == layout[l.target]
             sH == sliceHeight(l.value, sTotalOf(b, layout, l), source.height)
             tH == sliceHeight(l.value, tTotalOf(b, layout, l), target.height)
             sUsed == sOff[l.source]
             tUsed == tOff[l.target]
             syTop == NumAdd(source.y, sUsed)
             syBottom == NumAdd(syTop, sH)
             tyTop == NumAdd(target.y, tUsed)
             tyBottom == NumAdd(tyTop, tH)
             sx == NumAdd(source.x, source.width)
             tx == target.x
             mx == NumDiv(NumAdd(sx, tx), Two)
         IN  <<[sx |-> sx, syTop |-> syTop, syBottom |-> syBottom,
                tx |-> tx, tyTop |-> tyTop, tyBottom |-> tyBottom, mx |-> mx]>>
             \o RouteFrom(b, layout, i + 1,
                          [sOff EXCEPT ![l.source] = NumAdd(sUsed, sH)],
                          [tOff EXCEPT ![l.target] = NumAdd(tUsed, tH)])

\* updateLinkPaths(): the 'd' of every link from the current layout.
updateLinkPaths(b, layout) ==
    RouteFrom(b, layout, 1,
              [id \in DOMAIN layout |-> InitialOffset(id)],
              [id \in DOMAIN layout |-> InitialOffset(id)])

(***************************************************************************)
(* Highlight.                                                              *)
(***************************************************************************)

\* links.forEach within one step of the traversal: the links from the i-th
\* on, seen from the dequeued node nid.
\* ScanLinks following a link only from its source to its target.
RECURSIVE ScanLinks_Directed(_, _, _, _)
ScanLinks_Directed(links, i, nid, acc) ==
    IF i > Len(links) THEN acc
    ELSE LET l == links[i]
         IN  IF i \in acc.visitedLinks \/ l.source # nid
             THEN ScanLinks_Directed(links, i + 1, nid, acc)
             ELSE ScanLinks_Directed(links, i + 1, nid,
                     [visitedLinks |-> acc.visitedLinks \cup {i},
                      visitedNodes |-> acc.visitedNodes \cup {l.target},
                      queue |-> IF l.target \in acc.visitedNodes THEN acc.queue
                                ELSE Append(acc.queue, l.target)])

RECURSIVE ScanLinks(_, _, _, _)
ScanLinks(links, i, nid, acc) ==
    IF i > Len(links) THEN acc
    ELSE LET l == links[i]
         IN  IF i \in acc.visitedLinks \/ ~(l.source = nid \/ l.target = nid)
             THEN ScanLinks(links, i + 1, nid, acc)
             ELSE LET other == IF l.source = nid THEN l.target ELSE l.source
                      seen == other \in acc.visitedNodes
                  IN  ScanLinks(links, i + 1, nid,
                         [visitedLinks |-> acc.visitedLinks \cup {i},
                          visitedNodes |-> acc.visitedNodes \cup {other},
                          queue |-> IF seen THEN acc.queue ELSE Append(acc.queue, other)])

RECURSIVE Traverse(_, _)
Traverse(links, acc) ==
    IF acc.queue = <<>> THEN acc
    ELSE Traverse(links, ScanLinks(links, 1, Head(acc.queue),
                                   [acc EXCEPT !.queue = Tail(acc.queue)]))

\* The visited nodes and links of highlightFromNode(startId).
visitedFrom(links, startId) ==
    Traverse(links, [visitedLinks |-> {}, visitedNodes |-> {startId},
                     queue |-> <<startId>>])

NeutralLinkOpacity(links) == [i \in 1..Len(links) |-> "0.35"]
\* clearHighlight resetting the opacity of the rects but not their border.
NeutralNodeStyle_KeepBorder(ids) ==
    [id \in ids |-> [opacity |-> "1",
                     strokeWidth |-> IF id \in DOMAIN nodeStyle
                                     THEN nodeStyle[id].strokeWidth ELSE "0.5"]]

NeutralNodeStyle(ids) == [id \in ids |-> [opacity |-> "1", strokeWidth |-> "0.5"]]

highlightLinkOpacity(links, visited) ==
    [i \in 1..Len(links) |-> IF i \in visited.visitedLinks THEN "0.9" ELSE "0.08"]

highlightNodeStyle(ids, visited) ==
    [id \in ids |-> IF id \in visited.visitedNodes
                    THEN [opacity |-> "1", strokeWidth |-> "2"]
                    ELSE [opacity |-> "0.3", strokeWidth |-> "0.5"]]

(***************************************************************************)
(* Inputs of the model.                                                    *)
(***************************************************************************)

\* Longest row list of the model.
MaxRows == 2

\* The amount strings a row may hold: empty, negative, plain, fractional,
\* and one large enough for sums with the small ones to be rounded.
ValueStrings ==
    { <<>>, <<"-", "5">>, <<"1">>, <<"0", ".", "3">>, <<"1", "0", "2", "6">> }

\* The amount strings of the rows of the interactive specification.

\* The row list with the amounts `values`.
Rows(values) == [i \in 1..Len(values) |-> [id |-> i, value |-> values[i]]]

RowLists(values) ==
    UNION { { Rows(f) : f \in [1..n -> values] } : n \in 0..MaxRows }

\* The pairs of row lists the diagram is dragged on: a surplus, a deficit,
\* a column whose small node is drawn at the minimum height, a balanced
\* budget of one income and one expense, whose three columns hold one node
\* each, scaled to the whole inner height, and a column of three nodes.
DragInputs ==
    { <<Rows(<< <<"1">>, <<"0", ".", "3">> >>), Rows(<< <<"1">> >>)>>,
      <<Rows(<< <<"1">> >>), Rows(<< <<"0", ".", "3">>, <<"1">> >>)>>,
      <<Rows(<< <<"1", "0", "2", "6">>, <<"1">> >>), Rows(<< <<"1">> >>)>>,
      <<Rows(<< <<"1", "9">> >>), Rows(<< <<"1", "9">> >>)>>,
      <<Rows(<< <<"1">>, <<"1">> >>), Rows(<< <<"3">> >>)>> }

(***************************************************************************)
(* The effect: the first render of the mounted component.                  *)
(***************************************************************************)

AllHandlers == {"drag", "nodeClick", "linkClick", "svgClick", "zoom"}

Render ==
    /\ build.shown = "none"
    /\ \E b \in {Build(incomeRows, expenseRows)} :
       \E layout \in {nodesLayoutOf(b.columns, b.ky)} :
           /\ build' = b
           /\ IF b.shown = "diagram"
              THEN /\ nodeById' = layout
                   /\ colMap' = colMapOf(b.columns)
                   /\ linkPaths' = updateLinkPaths(b, layout)
                   /\ linkOpacity' = NeutralLinkOpacity(b.links)
                   /\ nodeStyle' = NeutralNodeStyle(DOMAIN layout)
                   /\ handlers' = AllHandlers
              ELSE /\ nodeById' = <<>>
                   /\ colMap' = <<>>
                   /\ linkPaths' = <<>>
                   /\ linkOpacity' = <<>>
                   /\ nodeStyle' = <<>>
                   /\ handlers' = {}
    /\ snapY' = <<>>
    /\ transitions' = <<>>
    /\ dragging' = <<>>
    /\ UNCHANGED <<page, previous, incomeRows, expenseRows, moves, drags>>

\* nodeSelection.on('click'): highlight from the clicked node.
ClickNode(id) ==
    /\ "nodeClick" \in handlers
    /\ id \in DOMAIN nodeById
    /\ \E visited \in {visitedFrom(build.links, id)} :
           /\ linkOpacity' = highlightLinkOpacity(build.links, visited)
           /\ nodeStyle' = highlightNodeStyle(DOMAIN nodeById, visited)
    /\ UNCHANGED <<page, previous, incomeRows, expenseRows, build, nodeById, colMap, snapY, linkPaths,
                   transitions, dragging, handlers, moves, drags>>

\* linkSelection.on('click'): highlight from the clicked link's source.
ClickLink(i) ==
    /\ "linkClick" \in handlers
    /\ i \in 1..Len(build.links)
    /\ \E visited \in {visitedFrom(build.links, build.links[i].source)} :
           /\ linkOpacity' = highlightLinkOpacity(build.links, visited)
           /\ nodeStyle' = highlightNodeStyle(DOMAIN nodeById, visited)
    /\ UNCHANGED <<page, previous, incomeRows, expenseRows, build, nodeById, colMap, snapY, linkPaths,
                   transitions, dragging, handlers, moves, drags>>

\* svg.on('click'): clearHighlight().
ClickBackground ==
    /\ "svgClick" \in handlers
    /\ linkOpacity' = NeutralLinkOpacity(build.links)
    /\ nodeStyle' = NeutralNodeStyle(DOMAIN nodeById)
    /\ UNCHANGED <<page, previous, incomeRows, expenseRows, build, nodeById, colMap, snapY, linkPaths,
                   transitions, dragging, handlers, moves, drags>>

\* The diagram on its own, without the page around it.
NoPage == [mounted |-> FALSE]

InitWith(inputs) ==
    /\ \E input \in inputs : incomeRows = input[1] /\ expenseRows = input[2]
    /\ page = NoPage
    /\ previous = <<>>
    /\ build = NoBuild
    /\ nodeById = <<>>
    /\ colMap = <<>>
    /\ snapY = <<>>
    /\ linkPaths = <<>>
    /\ transitions = <<>>
    /\ dragging = <<>>
    /\ linkOpacity = <<>>
    /\ nodeStyle = <<>>
    /\ handlers = {}
    /\ moves = 0
    /\ drags = 0

\* The builder, the layout, the router and the highlight over every pair of
\* row lists of ValueStrings.
InitBuild == InitWith(RowLists(ValueStrings) \X RowLists(ValueStrings))

NextBuild ==
    \/ Render
    \/ \E id \in DOMAIN nodeById : ClickNode(id)
    \/ \E i \in 1..Len(linkPaths) : ClickLink(i)
    \/ ClickBackground

SpecBuild == InitBuild /\ [][NextBuild]_vars

\* The amount strings of the row lists the scale is computed for: plain,
\* fractional, and the one parseFloat reads as Infinity.
ScaleValueStrings == { <<"1">>, <<"0", ".", "3">>, InfinityLiteral }

\* The pairs of row lists the scale is computed for.
ScaleInputs == RowLists(ScaleValueStrings) \X RowLists(ScaleValueStrings)

InitScale == InitWith(ScaleInputs)

\* The first render and the clicks, for the row lists of ScaleInputs.
SpecScale == InitScale /\ [][NextBuild]_vars

(***************************************************************************)
(* Drag, reorder and easing.  One pointer: at most one gesture at a time.  *)
(***************************************************************************)

\* Most pointer-move events and most drag gestures of a behaviour.
MaxMoves == 2
MaxDrags == 2

\* The vertical pointer displacement of a pointer-move event is DragStep,
\* up or down.
DragStep == 70
DragDeltas == {NumOfInt(0 - DragStep), NumOfInt(DragStep)}

\* A transition may tick once before its last tick.
MaxMidTicks == 1

Half == NumDiv(One, Two)

\* easeCubicOut halfway through the duration: 1 - (1 - 1/2)^3.
EasedHalf == NumDiv(NumOfInt(7), NumOfInt(8))

\* d3.interpolateNumber(a, b)(t) = a * (1 - t) + b * t
interpolateNumber(a, b, t) ==
    NumAdd(NumMul(a, NumSub(One, t)), NumMul(b, t))

\* Math.abs(targetY - startY) < 0.5
Negligible(targetY, startY) == NumLt(NumAbs(NumSub(targetY, startY)), Half)

HeightsOf(ids) == [i \in 1..Len(ids) |-> nodeById[ids[i]].height]

\* The move without the clamp at the lower edge of the canvas.
draggedY_NoLowerEdge(d, dy) ==
    NumMax(top, NumAdd(d.y, dy))

\* drag: d.y = Math.max(minY, Math.min(maxY, d.y + event.dy))
draggedY(d, dy) ==
    NumMax(top,
           NumMin(NumSub(NumAdd(top, innerHeight), d.height),
                  NumAdd(d.y, dy)))

topSnapZone == NumAdd(top, NumMul(padding, Half))

bottomSnapZone(d) ==
    NumSub(NumSub(NumAdd(top, innerHeight), NumMul(padding, Half)),
           d.height)

\* The centers of the slots of a column stacked without the dragged node.
slotCentersOf(heights, tops) ==
    [i \in 1..Len(heights) |-> NumAdd(tops[i], NumDiv(heights[i], Two))]

\* The scan stopping at the first slot centre the node's centre exceeds.
InsertionIndex_StopAtFirst(centerD, slotCenters) ==
    IF slotCenters # <<>> /\ NumGt(centerD, slotCenters[1]) THEN 1 ELSE 0

\* newIndex = 0; for (i ...) if (centerD > slotCenters[i]) newIndex = i + 1,
\* counted from 0.
RECURSIVE InsertionIndex(_, _)
InsertionIndex(centerD, slotCenters) ==
    IF slotCenters = <<>> THEN 0
    ELSE IF NumGt(centerD, slotCenters[Len(slotCenters)]) THEN Len(slotCenters)
    ELSE InsertionIndex(centerD, SubSeq(slotCenters, 1, Len(slotCenters) - 1))

Without(ids, id) == SelectSeq(ids, LAMBDA n : n # id)

\* The handler sending a node in the bottom snap zone to the first slot, as
\* it does a node in the top snap zone.
newIndexOf_BothZonesFirst(d, y, colNodes) ==
    IF NumLe(y, topSnapZone) \/ NumGe(y, bottomSnapZone(d)) THEN 0
    ELSE InsertionIndex(NumAdd(y, NumDiv(d.height, Two)),
                        slotCentersOf(HeightsOf(Without(colNodes, d.id)),
                                      StackFrom(HeightsOf(Without(colNodes, d.id)), top)))

\* The index (from 0) the dragged node d, now at y, is to take in colNodes.
newIndexOf(d, y, colNodes) ==
    IF NumLe(y, topSnapZone) THEN 0
    ELSE IF NumGe(y, bottomSnapZone(d)) THEN Len(colNodes) - 1
    ELSE InsertionIndex(NumAdd(y, NumDiv(d.height, Two)),
                        slotCentersOf(HeightsOf(Without(colNodes, d.id)),
                                      StackFrom(HeightsOf(Without(colNodes, d.id)), top)))

\* spliced without the removal: the node is inserted at its new index and
\* stays at its old one.
spliced_NoRemoval(colNodes, id, newIndex) ==
    IF newIndex = IndexIn(colNodes, id) - 1 THEN colNodes
    ELSE SubSeq(colNodes, 1, newIndex) \o <<id>>
         \o SubSeq(colNodes, newIndex + 1, Len(colNodes))

\* colNodes.splice(currIndex, 1); colNodes.splice(newIndex, 0, d)
spliced(colNodes, id, newIndex) ==
    IF newIndex = IndexIn(colNodes, id) - 1 THEN colNodes
    ELSE SubSeq(Without(colNodes, id), 1, newIndex) \o <<id>>
         \o SubSeq(Without(colNodes, id), newIndex + 1, Len(colNodes) - 1)

\* sel.transition() without the sel.interrupt() before it: the easings the
\* node already has stay in flight beside the new one.
withTransitions_NoInterrupt(started, targetOf) ==
    [id \in DOMAIN transitions \cup started |->
        IF id \in started
        THEN Append(IF id \in DOMAIN transitions THEN transitions[id] ELSE <<>>,
                    [from |-> nodeById[id].y, to |-> targetOf[id], ticks |-> 0])
        ELSE transitions[id]]

\* sel.interrupt().transition().tween('move', ...) on the nodes of
\* `started`: interrupt() ends every easing of the node, transition()
\* schedules the new one from the node's present y.
withTransitions(started, targetOf) ==
    [id \in DOMAIN transitions \cup started |->
        IF id \in started
        THEN <<[from |-> nodeById[id].y, to |-> targetOf[id], ticks |-> 0]>>
        ELSE transitions[id]]

\* drag 'start'
DragStart(id) ==
    /\ "drag" \in handlers
    /\ dragging = <<>>
    /\ drags < MaxDrags
    /\ id \in DOMAIN nodeById
    /\ snapY' = [n \in DOMAIN snapY \cup {id} |->
                    IF n = id THEN nodeById[id].y ELSE snapY[n]]
    /\ dragging' = <<id>>
    /\ drags' = drags + 1
    /\ UNCHANGED <<page, previous, incomeRows, expenseRows, build, nodeById, colMap, linkPaths,
                   transitions, linkOpacity, nodeStyle, handlers, moves>>

\* drag 'drag', from the reordering on: order is the column's new order and
\* targets the stacked y of its slots.
DragRestack(id, y, order, targets) ==
    \E layout \in {[nodeById EXCEPT ![id].y = y]} :
    \E targetOf \in {[n \in {order[i] : i \in 1..Len(order)} |->
                         targets[IndexIn(order, n)]]} :
        /\ nodeById' = layout
        /\ colMap' = [colMap EXCEPT ![nodeById[id].colKey] = order]
        /\ snapY' = [snapY EXCEPT ![id] = targetOf[id]]
        /\ transitions' =
              withTransitions({n \in DOMAIN targetOf :
                                  n # id /\ ~Negligible(targetOf[n], nodeById[n].y)},
                              targetOf)
        /\ linkPaths' = updateLinkPaths(build, layout)

\* drag 'drag'
DragMove(dy) ==
    /\ dragging # <<>>
    /\ moves < MaxMoves
    /\ \E id \in {dragging[1]} :
       \E y \in {draggedY(nodeById[id], dy)} :
       \E order \in {spliced(colMap[nodeById[id].colKey], id,
                             newIndexOf(nodeById[id], y, colMap[nodeById[id].colKey]))} :
           DragRestack(id, y, order, StackFrom(HeightsOf(order), top))
    /\ moves' = moves + 1
    /\ UNCHANGED <<page, previous, incomeRows, expenseRows, build, dragging, linkOpacity, nodeStyle,
                   handlers, drags>>

\* drag 'end'
DragEnd ==
    /\ dragging # <<>>
    /\ \E id \in {dragging[1]} :
       \E snap \in {IF id \in DOMAIN snapY THEN snapY[id] ELSE nodeById[id].y} :
           IF Negligible(snap, nodeById[id].y)
           THEN \E layout \in {[nodeById EXCEPT ![id].y = snap]} :
                    /\ nodeById' = layout
                    /\ linkPaths' = updateLinkPaths(build, layout)
                    /\ UNCHANGED transitions
           ELSE /\ transitions' = withTransitions({id}, [n \in {id} |-> snap])
                /\ UNCHANGED <<nodeById, linkPaths>>
    /\ dragging' = <<>>
    /\ UNCHANGED <<page, previous, incomeRows, expenseRows, build, colMap, snapY, linkOpacity,
                   nodeStyle, handlers, moves, drags>>

\* A tick that calls the router before it writes the node's y.
TickAt_LinksBeforeMove(id, k, t, last) ==
    \E layout \in {[nodeById EXCEPT
                       ![id].y = interpolateNumber(transitions[id][k].from,
                                                   transitions[id][k].to, t)]} :
        /\ nodeById' = layout
        /\ linkPaths' = updateLinkPaths(build, nodeById)
        /\ transitions' =
              IF ~last THEN [transitions EXCEPT ![id][k].ticks = @ + 1]
              ELSE IF Len(transitions[id]) > 1
                   THEN [transitions EXCEPT
                            ![id] = [j \in 1..(Len(@) - 1) |->
                                        IF j < k THEN @[j] ELSE @[j + 1]]]
                   ELSE [n \in DOMAIN transitions \ {id} |-> transitions[n]]
        /\ UNCHANGED <<page, previous, incomeRows, expenseRows, build, colMap, snapY, dragging,
                       linkOpacity, nodeStyle, handlers, moves, drags>>

\* One tick of the k-th 'move' tween the node has in flight, at eased time
\* t; the last tick, at t = 1, ends that transition.
TickAt(id, k, t, last) ==
    \E layout \in {[nodeById EXCEPT
                       ![id].y = interpolateNumber(transitions[id][k].from,
                                                   transitions[id][k].to, t)]} :
        /\ nodeById' = layout
        /\ linkPaths' = updateLinkPaths(build, layout)
        /\ transitions' =
              IF ~last THEN [transitions EXCEPT ![id][k].ticks = @ + 1]
              ELSE IF Len(transitions[id]) > 1
                   THEN [transitions EXCEPT
                            ![id] = [j \in 1..(Len(@) - 1) |->
                                        IF j < k THEN @[j] ELSE @[j + 1]]]
                   ELSE [n \in DOMAIN transitions \ {id} |-> transitions[n]]
        /\ UNCHANGED <<page, previous, incomeRows, expenseRows, build, colMap, snapY, dragging,
                       linkOpacity, nodeStyle, handlers, moves, drags>>

Tick(id) ==
    /\ id \in DOMAIN transitions
    /\ \E k \in 1..Len(transitions[id]) :
          \/ /\ transitions[id][k].ticks < MaxMidTicks
             /\ TickAt(id, k, EasedHalf, FALSE)
          \/ TickAt(id, k, One, TRUE)

\* The diagram under pointer, click and animation-frame events, for the
\* row lists of DragInputs.
Init == InitWith(DragInputs)

Next ==
    \/ Render
    \/ \E id \in DOMAIN nodeById : DragStart(id)
    \/ \E dy \in DragDeltas : DragMove(dy)
    \/ DragEnd
    \/ \E id \in DOMAIN nodeById : Tick(id)
    \/ \E id \in DOMAIN nodeById : ClickNode(id)

Spec == Init /\ [][Next]_vars

(***************************************************************************)
(* Re-rendering.  The effect runs again when incomeRows, expenseRows,      *)
(* width or height change; it returns no cleanup.  It empties the svg and  *)
(* builds new node objects, a new colMap, new selections and new handlers  *)
(* in a new closure.  What the previous run created is detached but not    *)
(* stopped: the timers of its transitions keep ticking and a drag gesture  *)
(* in progress keeps receiving the window's pointer events, both through   *)
(* the closure of the run that created them.  `previous` holds those       *)
(* discarded diagrams, the latest last.                                    *)
(***************************************************************************)
MaxRerenders == 1

\* The row lists the diagram is first rendered with: a surplus with two
\* incomes.
FirstInputs ==
    { <<Rows(<< <<"1">>, <<"0", ".", "3">> >>), Rows(<< <<"1">> >>)>> }

\* The row lists it is re-rendered with: the same, and a deficit with two
\* expenses.
RerenderInputs ==
    FirstInputs \cup { <<Rows(<< <<"1">> >>), Rows(<< <<"0", ".", "3">>, <<"1">> >>)>> }

\* What a run of the effect leaves behind when the next run replaces it.
Discarded ==
    [build |-> build, nodeById |-> nodeById, colMap |-> colMap, snapY |-> snapY,
     linkPaths |-> linkPaths, transitions |-> transitions, dragging |-> dragging,
     highlighted |-> linkOpacity # NeutralLinkOpacity(build.links), ran |-> {}]

\* The effect running again, props changed to input: svg.selectAll('*')
\* .remove() and the whole body once more.
Rerender(input) ==
    /\ build.shown # "none"
    /\ Len(previous) < MaxRerenders
    /\ previous' = Append(previous, Discarded)
    /\ incomeRows' = input[1]
    /\ expenseRows' = input[2]
    /\ \E b \in {Build(input[1], input[2])} :
       \E layout \in {nodesLayoutOf(b.columns, b.ky)} :
           /\ build' = b
           /\ IF b.shown = "diagram"
              THEN /\ nodeById' = layout
                   /\ colMap' = colMapOf(b.columns)
                   /\ linkPaths' = updateLinkPaths(b, layout)
                   /\ linkOpacity' = NeutralLinkOpacity(b.links)
                   /\ nodeStyle' = NeutralNodeStyle(DOMAIN layout)
                   /\ handlers' = AllHandlers
              ELSE /\ nodeById' = <<>>
                   /\ colMap' = <<>>
                   /\ linkPaths' = <<>>
                   /\ linkOpacity' = <<>>
                   /\ nodeStyle' = <<>>
                   /\ handlers' = {}
    /\ snapY' = <<>>
    /\ transitions' = <<>>
    /\ dragging' = <<>>
    /\ UNCHANGED <<page, moves, drags>>

\* The heights of the nodes ids in the discarded diagram p.
HeightsIn(p, ids) == [i \in 1..Len(ids) |-> p.nodeById[ids[i]].height]

\* newIndexOf in the closure of the discarded diagram p.
newIndexIn(p, d, y, colNodes) ==
    IF NumLe(y, topSnapZone) THEN 0
    ELSE IF NumGe(y, bottomSnapZone(d)) THEN Len(colNodes) - 1
    ELSE InsertionIndex(NumAdd(y, NumDiv(d.height, Two)),
                        slotCentersOf(HeightsIn(p, Without(colNodes, d.id)),
                                      StackFrom(HeightsIn(p, Without(colNodes, d.id)), top)))

\* withTransitions on the nodes of the discarded diagram p.
withTransitionsIn(p, started, targetOf) ==
    [id \in DOMAIN p.transitions \cup started |->
        IF id \in started
        THEN <<[from |-> p.nodeById[id].y, to |-> targetOf[id], ticks |-> 0]>>
        ELSE p.transitions[id]]

\* The discarded diagram p after its drag handler moved node id to y and
\* restacked its column in order.
RestackedIn(p, id, y, order, targets) ==
    [p EXCEPT
        !.nodeById = [@ EXCEPT ![id].y = y],
        !.colMap = [@ EXCEPT ![p.nodeById[id].colKey] = order],
        !.snapY = [@ EXCEPT ![id] = targets[IndexIn(order, id)]],
        !.transitions =
            withTransitionsIn(p, {n \in {order[i] : i \in 1..Len(order)} :
                                     /\ n # id
                                     /\ ~Negligible(targets[IndexIn(order, n)],
                                                    p.nodeById[n].y)},
                              [n \in {order[i] : i \in 1..Len(order)} |->
                                  targets[IndexIn(order, n)]]),
        !.linkPaths = updateLinkPaths(p.build, [p.nodeById EXCEPT ![id].y = y]),
        !.ran = @ \cup {"drag"}]

\* The writes of the stale handlers, in the current diagram's variables: none.
StaleLeaves ==
    UNCHANGED <<page, incomeRows, expenseRows, build, nodeById, colMap, snapY, linkPaths,
                transitions, dragging, linkOpacity, nodeStyle, handlers, drags>>

\* drag 'drag' of a gesture that began on the discarded diagram i.
PreviousDragMove(i, dy) ==
    /\ previous[i].dragging # <<>>
    /\ moves < MaxMoves
    /\ \E p \in {previous[i]} :
       \E id \in {p.dragging[1]} :
       \E y \in {draggedY(p.nodeById[id], dy)} :
       \E order \in {spliced(p.colMap[p.nodeById[id].colKey], id,
                             newIndexIn(p, p.nodeById[id], y,
                                        p.colMap[p.nodeById[id].colKey]))} :
           previous' = [previous EXCEPT
                           ![i] = RestackedIn(p, id, y, order,
                                              StackFrom(HeightsIn(p, order), top))]
    /\ moves' = moves + 1
    /\ StaleLeaves

\* The discarded diagram p after the 'end' of its drag gesture.
ReleasedIn(p, id, snap) ==
    IF Negligible(snap, p.nodeById[id].y)
    THEN [p EXCEPT !.nodeById = [@ EXCEPT ![id].y = snap],
                   !.linkPaths = updateLinkPaths(p.build,
                                                 [p.nodeById EXCEPT ![id].y = snap]),
                   !.dragging = <<>>,
                   !.ran = @ \cup {"end"}]
    ELSE [p EXCEPT !.transitions = withTransitionsIn(p, {id}, [n \in {id} |-> snap]),
                   !.dragging = <<>>,
                   !.ran = @ \cup {"end"}]

\* drag 'end' of a gesture that began on the discarded diagram i.
PreviousDragEnd(i) ==
    /\ previous[i].dragging # <<>>
    /\ \E p \in {previous[i]} :
       \E id \in {p.dragging[1]} :
           previous' = [previous EXCEPT
                           ![i] = ReleasedIn(p, id, IF id \in DOMAIN p.snapY
                                                    THEN p.snapY[id]
                                                    ELSE p.nodeById[id].y)]
    /\ UNCHANGED moves
    /\ StaleLeaves

\* The discarded diagram p after a tick of the k-th 'move' tween of node id.
TickedIn(p, id, k, t, last) ==
    [p EXCEPT
        !.nodeById = [@ EXCEPT ![id].y = interpolateNumber(p.transitions[id][k].from,
                                                           p.transitions[id][k].to, t)],
        !.linkPaths =
            updateLinkPaths(p.build,
                            [p.nodeById EXCEPT
                                ![id].y = interpolateNumber(p.transitions[id][k].from,
                                                            p.transitions[id][k].to, t)]),
        !.transitions =
            IF ~last THEN [@ EXCEPT ![id][k].ticks = @ + 1]
            ELSE IF Len(p.transitions[id]) > 1
                 THEN [@ EXCEPT ![id] = [j \in 1..(Len(@) - 1) |->
                                            IF j < k THEN @[j] ELSE @[j + 1]]]
                 ELSE [n \in DOMAIN p.transitions \ {id} |-> p.transitions[n]],
        !.ran = @ \cup {"tick"}]

\* A tick whose tween writes the node of the same id in the diagram on
\* screen, as it would if the node objects outlived the render.
PreviousTick_SharedNodes(i, id) ==
    /\ id \in DOMAIN previous[i].transitions
    /\ \E k \in 1..Len(previous[i].transitions[id]) :
       \E last \in {previous[i].transitions[id][k].ticks >= MaxMidTicks} :
       \E t \in {IF last THEN One ELSE EasedHalf} :
           /\ previous' = [previous EXCEPT ![i] = TickedIn(previous[i], id, k, t, last)]
           /\ nodeById' = IF id \in DOMAIN nodeById
                          THEN [nodeById EXCEPT
                                   ![id].y = previous'[i].nodeById[id].y]
                          ELSE nodeById
    /\ UNCHANGED <<page, incomeRows, expenseRows, build, colMap, snapY, linkPaths,
                   transitions, dragging, linkOpacity, nodeStyle, handlers, drags, moves>>

\* A tick of a 'move' tween the discarded diagram i still has in flight.
PreviousTick(i, id) ==
    /\ id \in DOMAIN previous[i].transitions
    /\ \E k \in 1..Len(previous[i].transitions[id]) :
       \E last \in {previous[i].transitions[id][k].ticks >= MaxMidTicks} :
       \E t \in {IF last THEN One ELSE EasedHalf} :
           previous' = [previous EXCEPT ![i] = TickedIn(previous[i], id, k, t, last)]
    /\ UNCHANGED moves
    /\ StaleLeaves

InitRerender == InitWith(FirstInputs)

\* The node the pointer goes down on: the one the builder put first in the
\* first column, which has two nodes for either input.
PressedNodes ==
    IF build.shown = "diagram" THEN {colMapOf(build.columns)["source"][1]} ELSE {}

NextRerender ==
    \/ Render
    \/ \E input \in RerenderInputs : Rerender(input)
    \/ \E id \in PressedNodes : DragStart(id)
    \/ \E dy \in DragDeltas : DragMove(dy)
    \/ DragEnd
    \/ \E id \in DOMAIN nodeById : Tick(id)
    \/ \E id \in DOMAIN nodeById \cap {BudgetId} : ClickNode(id)
    \/ \E i \in 1..Len(previous) : \E dy \in DragDeltas : PreviousDragMove(i, dy)
    \/ \E i \in 1..Len(previous) : PreviousDragEnd(i)
    \/ \E i \in 1..Len(previous) :
          \E id \in DOMAIN previous[i].nodeById : PreviousTick(i, id)

\* The diagram re-rendered while it is dragged and easing.
SpecRerender == InitRerender /\ [][NextRerender]_vars

(***************************************************************************)
(* The budget page (app/budgets/[id]/page.tsx).  `page` holds its React    *)
(* state (period, customDays, incomeRows, expenseRows), the pending        *)
(* timeouts of window.setTimeout, the timeout id the latest run of the     *)
(* autosave effect holds in its closure, the clock in milliseconds, and     *)
(* the entry of localStorage.  The page's setters are called from click,   *)
(* change and blur handlers; React renders such an update and runs the     *)
(* effects it invalidates, cleanup first, before the handler's task ends,   *)
(* so that no timer callback runs between a change and the effect: an       *)
(* action is the handler together with the effect it triggers.  changedAt   *)
(* and autosaved record when the effect last ran and what the last          *)
(* autosave wrote, for the properties.                                      *)
(***************************************************************************)
AUTOSAVE_DELAY == 5000

\* The autosave effect runs at most this many times.
MaxEffectRuns == 4

\* The clock advances by ClockStep, up to MaxClock.
ClockStep == 2500
MaxClock == 10000

\* A row list holds at most this many rows.
MaxPageRows == 2

PagePeriods == {"monthly", "weekly", "annually", "custom"}

\* The numbers typed into the days field.
PageDays == {30, 7}

\* The amounts typed into a row.
PageValues == {"", "1"}

\* useState's initial row list of a side ("income" or "expense").
InitialRows(side) == <<[id |-> <<side, 0>>, label |-> "", value |-> ""]>>

\* The payload of saveBudgetToLocalStorage in the closure of the render of p.
Payload(p) ==
    [period |-> p.period, customDays |-> p.customDays,
     incomeRows |-> p.incomeRows, expenseRows |-> p.expenseRows]

\* The entry of localStorage when the page is opened: none, or one saved
\* by an earlier visit.
StoredAtStart ==
    { <<>>,
      <<[period |-> "custom", customDays |-> 7,
         incomeRows |-> <<[id |-> <<"income", 0>>, label |-> "", value |-> "1"]>>,
         expenseRows |-> InitialRows("expense")]>> }

\* The page before it is mounted.
Unmounted(stored, now, runs, autosaved) ==
    [mounted |-> FALSE, period |-> "monthly", customDays |-> 30,
     incomeRows |-> InitialRows("income"), expenseRows |-> InitialRows("expense"),
     timers |-> {}, timeoutId |-> 0, runs |-> runs, now |-> now, changedAt |-> now,
     stored |-> stored, autosaved |-> autosaved]

\* The effect's cleanup left out: the timeout of the previous run stays
\* pending.
Cleanup_KeepTimer(p) == p

\* The effect's cleanup: window.clearTimeout(timeoutId).
Cleanup(p) == [p EXCEPT !.timers = {t \in @ : t.id # p.timeoutId}]

\* The effect's body: window.setTimeout(() => saveBudgetToLocalStorage(),
\* AUTOSAVE_DELAY), with the callback of the render of p.
Effect(p) ==
    [p EXCEPT !.runs = @ + 1,
              !.timeoutId = p.runs + 1,
              !.timers = @ \cup {[id |-> p.runs + 1, due |-> p.now + AUTOSAVE_DELAY,
                                  payload |-> Payload(p)]},
              !.changedAt = p.now]

\* What the page's actions leave alone: the diagram.
PageLeaves ==
    UNCHANGED <<previous, incomeRows, expenseRows, build, nodeById, colMap, snapY,
                linkPaths, transitions, dragging, linkOpacity, nodeStyle, handlers,
                moves, drags>>

\* The page is opened: the useState initialisers read the stored entry, the
\* effect runs for the first time.
Mount ==
    /\ ~page.mounted
    /\ page.runs < MaxEffectRuns
    /\ page' = Effect([page EXCEPT
                          !.mounted = TRUE,
                          !.period = IF page.stored # <<>>
                                     THEN page.stored[1].period ELSE "monthly",
                          !.customDays = IF page.stored # <<>>
                                         THEN page.stored[1].customDays ELSE 30,
                          !.incomeRows = IF page.stored # <<>>
                                            /\ Len(page.stored[1].incomeRows) > 0
                                         THEN page.stored[1].incomeRows
                                         ELSE InitialRows("income"),
                          !.expenseRows = IF page.stored # <<>>
                                             /\ Len(page.stored[1].expenseRows) > 0
                                          THEN page.stored[1].expenseRows
                                          ELSE InitialRows("expense")])
    /\ PageLeaves

\* The page is left: the effect's cleanup runs.
Unmount ==
    /\ page.mounted
    /\ page' = [Unmounted(page.stored, page.now, page.runs, page.autosaved)
                   EXCEPT !.timers = Cleanup(page).timers]
    /\ PageLeaves

\* onClick of a period button: setPeriod(p).  The same period is no change.
SetPeriod(p) ==
    /\ page.mounted
    /\ page.runs < MaxEffectRuns
    /\ p # page.period
    /\ page' = Effect(Cleanup([page EXCEPT !.period = p]))
    /\ PageLeaves

\* onChange of the days field, shown for the custom period.
SetCustomDays(n) ==
    /\ page.mounted
    /\ page.runs < MaxEffectRuns
    /\ page.period = "custom"
    /\ n # page.customDays
    /\ page' = Effect(Cleanup([page EXCEPT !.customDays = n]))
    /\ PageLeaves

\* handleRowChange on the value of row i of a side: setList(list.map(...)),
\* a new array even when the value typed is the one the row has.
ChangeRow(side, i, v) ==
    /\ page.mounted
    /\ page.runs < MaxEffectRuns
    /\ IF side = "income"
       THEN /\ i \in 1..Len(page.incomeRows)
            /\ page' = Effect(Cleanup([page EXCEPT !.incomeRows[i].value = v]))
       ELSE /\ i \in 1..Len(page.expenseRows)
            /\ page' = Effect(Cleanup([page EXCEPT !.expenseRows[i].value = v]))
    /\ PageLeaves

\* addIncomeRow / addExpenseRow: a row with an id made of Date.now().
AddRow(side) ==
    /\ page.mounted
    /\ page.runs < MaxEffectRuns
    /\ \E row \in {[id |-> <<side, page.now + 1>>, label |-> "", value |-> ""]} :
           IF side = "income"
           THEN /\ Len(page.incomeRows) < MaxPageRows
                /\ page' = Effect(Cleanup([page EXCEPT !.incomeRows = Append(@, row)]))
           ELSE /\ Len(page.expenseRows) < MaxPageRows
                /\ page' = Effect(Cleanup([page EXCEPT !.expenseRows = Append(@, row)]))
    /\ PageLeaves

\* Time passes.
Advance ==
    /\ page.now + ClockStep <= MaxClock
    /\ page' = [page EXCEPT !.now = @ + ClockStep]
    /\ PageLeaves

\* The callback of a pending timeout runs, at or after its due time:
\* saveBudgetToLocalStorage() of the render that set it.
Autosave(t) ==
    /\ t \in page.timers
    /\ page.now >= t.due
    /\ page' = [page EXCEPT
                   !.timers = @ \ {t},
                   !.stored = <<t.payload>>,
                   !.autosaved = <<[at |-> page.now, payload |-> t.payload,
                                    current |-> Payload(page),
                                    changedAt |-> page.changedAt]>>]
    /\ PageLeaves

\* onClick of the Save button: saveBudgetToLocalStorage() of this render.
Save ==
    /\ page.mounted
    /\ page.stored # <<Payload(page)>>
    /\ page' = [page EXCEPT !.stored = <<Payload(page)>>]
    /\ PageLeaves

InitAutosave ==
    /\ \E stored \in StoredAtStart : page = Unmounted(stored, 0, 0, <<>>)
    /\ previous = <<>>
    /\ incomeRows = <<>>
    /\ expenseRows = <<>>
    /\ build = NoBuild
    /\ nodeById = <<>>
    /\ colMap = <<>>
    /\ snapY = <<>>
    /\ linkPaths = <<>>
    /\ transitions = <<>>
    /\ dragging = <<>>
    /\ linkOpacity = <<>>
    /\ nodeStyle = <<>>
    /\ handlers = {}
    /\ moves = 0
    /\ drags = 0

NextAutosave ==
    \/ Mount
    \/ Unmount
    \/ \E p \in PagePeriods : SetPeriod(p)
    \/ \E n \in PageDays : SetCustomDays(n)
    \/ \E side \in {"income", "expense"} : \E i \in 1..MaxPageRows :
          \E v \in PageValues : ChangeRow(side, i, v)
    \/ \E side \in {"income", "expense"} : AddRow(side)
    \/ Advance
    \/ \E t \in page.timers : Autosave(t)
    \/ Save

\* The budget page under edits, the clock and its timers.
SpecAutosave == InitAutosave /\ [][NextAutosave]_vars


(***************************************************************************)
(* Properties.                                                             *)
(***************************************************************************)

Shown == build.shown = "diagram"

NodeOf(id) == build.nodes[CHOOSE i \in 1..Len(build.nodes) : build.nodes[i].id = id]

IncomeSide == NumAdd(build.totalIncome, build.debtTotal)
ExpenseSide == NumAdd(build.totalExpense, build.savingsTotal)

\* |a - b| <= k * 2^-MantBits * max(|a|, |b|): a and b are equal up to k
\* units of rounding.
WithinRounding(a, b, k) ==
    \/ a = b
    \/ /\ a.m # 0 /\ b.m # 0
       /\ a.e - b.e \in -2..2
       /\ LET lo == IF a.e < b.e THEN a.e ELSE b.e
              x == a.m * Pow2(a.e - lo)
              y == b.m * Pow2(b.e - lo)
              big == IF IAbs(x) > IAbs(y) THEN IAbs(x) ELSE IAbs(y)
          IN  IAbs(x - y) * MantLimit <= k * big

BalancingNodesExclusive ==
    /\ ~(build.debtTotal # Zero /\ build.savingsTotal # Zero)
    /\ (build.debtTotal = Zero /\ build.savingsTotal = Zero)
            <=> (build.totalIncome = build.totalExpense)

\* C1 as stated: in every diagram total income + debt = total expense +
\* savings = the pool node's final value, and debt and savings are never both
\* non-zero (both zero exactly when the totals are equal).
C1_BalanceExact ==
    Shown => /\ IncomeSide = ExpenseSide
             /\ NodeOf(BudgetId).value = IncomeSide
             /\ BalancingNodesExclusive

\* C1 amended: debt and savings are never both non-zero, both zero exactly
\* when the totals are equal; the pool node's final value is the larger of
\* total income + debt and total expense + savings; the side that carries no
\* balancing node is its plain total; and the two sides are equal up to
\* floating-point rounding (three units of rounding), not always exactly.
C1_BalanceUpToRounding ==
    Shown => /\ BalancingNodesExclusive
             /\ NodeOf(BudgetId).value = NumMax(IncomeSide, ExpenseSide)
             /\ build.debtTotal = Zero => IncomeSide = build.totalIncome
             /\ build.savingsTotal = Zero => ExpenseSide = build.totalExpense
             /\ WithinRounding(IncomeSide, ExpenseSide, 3)

\* A diagram with a Debt node whose two sides differ by rounding.
C1_Witness ==
    Shown /\ build.debtTotal # Zero /\ build.totalIncome # Zero
          /\ IncomeSide # ExpenseSide

NodeSeq(type) == SelectSeq(build.nodes, LAMBDA n : n.type = type)

Ends(links) == [i \in 1..Len(links) |-> <<links[i].source, links[i].target>>]

\* The link ends the node list calls for, in node order: every source-side
\* node into the pool, the pool into every sink-side node.
ExpectedEnds ==
    LET sideOf(n) == IF n.type \in {"income", "debt"} THEN <<n.id, BudgetId>>
                     ELSE <<BudgetId, n.id>>
        others == SelectSeq(build.nodes, LAMBDA n : n.type # "pool")
    IN  [i \in 1..Len(others) |-> sideOf(others[i])]

NodeSet == {build.nodes[i] : i \in 1..Len(build.nodes)}
SourceSide == {n.id : n \in {m \in NodeSet : m.type \in {"income", "debt"}}}
SinkSide == {n.id : n \in {m \in NodeSet : m.type \in {"expense", "savings"}}}

\* C2: in every diagram the links are exactly income -> pool per income node,
\* debt -> pool iff there is a Debt node, pool -> expense per expense node,
\* pool -> savings iff there is a Savings node; every link's value is > 0 and
\* no link joins two source-side or two sink-side nodes.
C2_LinksExact ==
    Shown => /\ Ends(build.links) = ExpectedEnds
             /\ \A i \in 1..Len(build.links) :
                   /\ NumGt(build.links[i].value, Zero)
                   /\ ~({build.links[i].source, build.links[i].target} \subseteq SourceSide)
                   /\ ~({build.links[i].source, build.links[i].target} \subseteq SinkSide)

\* A diagram with two income links, a debt link and an expense link.
C2_Witness ==
    Shown /\ Len(NodeSeq("income")) = 2 /\ Len(NodeSeq("debt")) = 1
          /\ Len(NodeSeq("expense")) >= 1 /\ Len(build.links) >= 4

PositiveRows(rows) == SelectSeq(rows, LAMBDA r : NumGt(toNum(r.value), Zero))

\* The ids and types the row lists call for, in order.
ExpectedNodes ==
    LET inc == PositiveRows(incomeRows)
        exp == PositiveRows(expenseRows)
    IN  [i \in 1..Len(inc) |-> <<<<"inc", inc[i].id>>, "income">>]
        \o (IF NumGt(build.totalExpense, build.totalIncome)
            THEN << <<DebtId, "debt">> >> ELSE <<>>)
        \o << <<BudgetId, "pool">> >>
        \o [i \in 1..Len(exp) |-> <<<<"exp", exp[i].id>>, "expense">>]
        \o (IF NumGt(build.totalIncome, build.totalExpense)
            THEN << <<SavingsId, "savings">> >> ELSE <<>>)

\* C3: in every diagram the node list is, in order: the income entries with
\* a parsed amount > 0, a Debt node iff total expense > total income (value
\* expense - income), one Pool node, the expense entries with a parsed amount
\* > 0, a Savings node iff total income > total expense (value income -
\* expense).
C3_NodeOrder ==
    Shown => /\ [i \in 1..Len(build.nodes) |-> <<build.nodes[i].id, build.nodes[i].type>>]
                    = ExpectedNodes
             /\ \A i \in 1..Len(build.nodes) :
                   /\ build.nodes[i].type = "debt" =>
                         build.nodes[i].value = NumSub(build.totalExpense, build.totalIncome)
                   /\ build.nodes[i].type = "savings" =>
                         build.nodes[i].value = NumSub(build.totalIncome, build.totalExpense)

\* A diagram with a Debt node built from rows of which some were excluded.
C3_Witness ==
    Shown /\ Len(NodeSeq("debt")) = 1 /\ Len(NodeSeq("income")) = 1
          /\ Len(incomeRows) = 2 /\ Len(NodeSeq("expense")) = 2

AnyPositive == PositiveRows(incomeRows) # <<>> \/ PositiveRows(expenseRows) # <<>>

\* C4: the render ends in the empty state iff no entry of either list has a
\* parsed amount > 0; then no nodes, links, layout or handlers exist, and in
\* every other case a diagram with at least one link is built.
C4_EmptyIff ==
    build.shown # "none" =>
        /\ (build.shown = "empty") <=> ~AnyPositive
        /\ build.shown = "empty" =>
              /\ build.nodes = <<>> /\ build.links = <<>>
              /\ nodeById = <<>> /\ colMap = <<>> /\ linkPaths = <<>>
              /\ handlers = {}
              /\ ~ENABLED (\E id \in DOMAIN nodeById : ClickNode(id))
        /\ build.shown = "diagram" =>
              /\ Len(build.links) >= 1
              /\ DOMAIN nodeById = {build.nodes[i].id : i \in 1..Len(build.nodes)}

\* The empty state reached with rows present, none of them usable.
C4_Witness ==
    build.shown = "empty" /\ Len(incomeRows) = 2 /\ Len(expenseRows) = 1

\* The links (by index) that leave, or enter, a node, in list order.
LinkIndices == [i \in 1..Len(build.links) |-> i]
OutLinks(id) == SelectSeq(LinkIndices, LAMBDA i : build.links[i].source = id)
InLinks(id) == SelectSeq(LinkIndices, LAMBDA i : build.links[i].target = id)

\* The slice heights of links ls on the node's side, and their sum taken
\* in list order.
SourceSlices(ls) ==
    [k \in 1..Len(ls) |->
        [value |-> sliceHeight(build.links[ls[k]].value,
                               sTotalOf(build, nodeById, build.links[ls[k]]),
                               nodeById[build.links[ls[k]].source].height)]]
TargetSlices(ls) ==
    [k \in 1..Len(ls) |->
        [value |-> sliceHeight(build.links[ls[k]].value,
                               tTotalOf(build, nodeById, build.links[ls[k]]),
                               nodeById[build.links[ls[k]].target].height)]]

\* The top and bottom y of the k-th of the slices ls on a node's edge.
SourceEdge(ls) ==
    [k \in 1..Len(ls) |-> <<linkPaths[ls[k]].syTop, linkPaths[ls[k]].syBottom>>]
TargetEdge(ls) ==
    [k \in 1..Len(ls) |-> <<linkPaths[ls[k]].tyTop, linkPaths[ls[k]].tyBottom>>]

\* The slices sum to the node's height and tile the edge from the node's
\* top to its bottom, each comparison made by Same.
Tiles(n, slices, edge, Same(_, _)) ==
    /\ Same(d3sum(slices), n.height)
    /\ edge[1][1] = n.y
    /\ \A k \in 1..Len(edge) - 1 : Same(edge[k][2], edge[k + 1][1])
    /\ Same(edge[Len(edge)][2], NumAdd(n.y, n.height))

Exactly(a, b) == a = b

\* C5 as stated: for every node with outbound links the slice heights sum
\* to the node's height and the slices tile its right edge from its top
\* downward without gap or overlap; the same for inbound links on the left
\* edge.
C5_SlicesExact ==
    Shown => \A id \in DOMAIN nodeById :
        /\ OutLinks(id) # <<>> =>
              Tiles(nodeById[id], SourceSlices(OutLinks(id)),
                    SourceEdge(OutLinks(id)), Exactly)
        /\ InLinks(id) # <<>> =>
              Tiles(nodeById[id], TargetSlices(InLinks(id)),
                    TargetEdge(InLinks(id)), Exactly)

\* C5 amended: the same, up to floating-point rounding: for a node with n
\* links on a side, the sum and the node's height, each slice's bottom and
\* the next slice's top, and the last bottom and the node's bottom differ by
\* at most 4n + 4 units of rounding; the first slice starts exactly at the
\* node's top.
C5_SlicesUpToRounding ==
    Shown => \A id \in DOMAIN nodeById :
        /\ OutLinks(id) # <<>> =>
              Tiles(nodeById[id], SourceSlices(OutLinks(id)),
                    SourceEdge(OutLinks(id)),
                    LAMBDA a, b : WithinRounding(a, b, 4 * Len(OutLinks(id)) + 4))
        /\ InLinks(id) # <<>> =>
              Tiles(nodeById[id], TargetSlices(InLinks(id)),
                    TargetEdge(InLinks(id)),
                    LAMBDA a, b : WithinRounding(a, b, 4 * Len(InLinks(id)) + 4))

\* A pool with several slices on both edges, those on the right edge not
\* summing exactly to its height.
C5_Witness ==
    /\ Shown
    /\ Len(OutLinks(BudgetId)) >= 2 /\ Len(InLinks(BudgetId)) >= 2
    /\ d3sum(SourceSlices(OutLinks(BudgetId))) # nodeById[BudgetId].height

\* Every node's first slice, on either edge, starts at the node's top.
FirstSlicesAtTop ==
    \A id \in DOMAIN nodeById :
        /\ OutLinks(id) # <<>> => linkPaths[OutLinks(id)[1]].syTop = nodeById[id].y
        /\ InLinks(id) # <<>> => linkPaths[InLinks(id)[1]].tyTop = nodeById[id].y

\* C6: the router keeps no state across calls: a step that leaves the node
\* layout as it is leaves the geometry of every link as it is, however many
\* times the router has been called, and after every step each node's first
\* slice starts at the node's top (the offset accumulators started from 0).
C6_RouterIdempotent ==
    [][/\ (build.shown = "diagram" /\ nodeById' = nodeById) => linkPaths' = linkPaths
       /\ build'.shown = "diagram" => FirstSlicesAtTop']_vars

\* A gesture without pointer-move has ended: its pointer-up called the
\* router on the layout the router had last been called on.
C6_Witness ==
    Shown /\ drags >= 1 /\ moves = 0 /\ dragging = <<>> /\ transitions = <<>>

\* C7: every node's height is max(minimum node height, value * ky), so at
\* least the minimum (8); of two nodes the one with the larger value is not
\* the lower one; and this holds in every state, so drag, settle and
\* highlight leave the heights as the layout set them.
C7_HeightFromValue ==
    Shown => \A id \in DOMAIN nodeById :
        /\ nodeById[id].value = NodeOf(id).value
        /\ NumGe(nodeById[id].height, NumOfInt(minNodeHeight))
        /\ nodeById[id].height =
              (IF NumGe(NumMul(NodeOf(id).value, build.ky), NumOfInt(minNodeHeight))
               THEN NumMul(NodeOf(id).value, build.ky) ELSE NumOfInt(minNodeHeight))
        /\ \A other \in DOMAIN nodeById :
              NumGe(nodeById[id].value, nodeById[other].value)
                  => NumGe(nodeById[id].height, nodeById[other].height)

\* A node at the minimum height next to a higher one, after a reordering
\* drag has been released and has settled, with a highlight on.
C7_Witness ==
    /\ Shown /\ moves >= 1 /\ dragging = <<>> /\ transitions = <<>>
    /\ colMap # colMapOf(build.columns)
    /\ \E i \in 1..Len(linkOpacity) : linkOpacity[i] = "0.9"
    /\ \E id, other \in DOMAIN nodeById :
          /\ nodeById[id].height = NumOfInt(minNodeHeight)
          /\ NumGt(NumOfInt(minNodeHeight), NumMul(nodeById[id].value, build.ky))
          /\ NumGt(nodeById[other].height, nodeById[id].height)

\* The nodes reachable from id over the links, taken in either direction.
RECURSIVE Reach(_)
Reach(ids) ==
    LET next == ids \cup {build.links[i].target :
                             i \in {j \in 1..Len(build.links) : build.links[j].source \in ids}}
                    \cup {build.links[i].source :
                             i \in {j \in 1..Len(build.links) : build.links[j].target \in ids}}
    IN  IF next = ids THEN ids ELSE Reach(next)

ComponentOf(id) == Reach({id})

LinksWithin(ids) ==
    {i \in 1..Len(build.links) :
        build.links[i].source \in ids \/ build.links[i].target \in ids}

ActiveNodes == {id \in DOMAIN nodeStyle : nodeStyle[id] = [opacity |-> "1", strokeWidth |-> "2"]}
DimmedNodes == {id \in DOMAIN nodeStyle : nodeStyle[id] = [opacity |-> "0.3", strokeWidth |-> "0.5"]}
ActiveLinks == {i \in 1..Len(linkOpacity) : linkOpacity[i] = "0.9"}
DimmedLinks == {i \in 1..Len(linkOpacity) : linkOpacity[i] = "0.08"}

\* The step is a click on node id or on a link whose source is id.
HighlightedFrom(id) ==
    \/ ClickNode(id)
    \/ \E i \in 1..Len(build.links) : build.links[i].source = id /\ ClickLink(i)

\* C8: a click on a node, or on a link (start node: its source), makes
\* active exactly the nodes and links of the start node's connected
\* component, links taken as undirected, and dims the others; the component
\* is every node and every link of the diagram.
C8_HighlightComponent ==
    [][\A id \in DOMAIN nodeById :
          HighlightedFrom(id) =>
              /\ ActiveNodes' = ComponentOf(id)
              /\ DimmedNodes' = DOMAIN nodeById \ ComponentOf(id)
              /\ ActiveLinks' = LinksWithin(ComponentOf(id))
              /\ DimmedLinks' = (1..Len(build.links)) \ LinksWithin(ComponentOf(id))
              /\ ComponentOf(id) = DOMAIN nodeById
              /\ LinksWithin(ComponentOf(id)) = 1..Len(build.links)]_vars

\* A diagram of five nodes and four links, all of them active.
C8_Witness ==
    Shown /\ Cardinality(ActiveNodes) >= 5 /\ Cardinality(ActiveLinks) >= 4

\* The step is a pointer-down, pointer-move, pointer-up or animation tick.
PointerOrTick ==
    \/ \E id \in DOMAIN nodeById : DragStart(id)
    \/ \E dy \in DragDeltas : DragMove(dy)
    \/ DragEnd
    \/ \E id \in DOMAIN nodeById : Tick(id)

ElementsOf(ids) == {ids[i] : i \in 1..Len(ids)}

\* order lists the nodes of original, each once.
IsPermutation(order, original) ==
    /\ Len(order) = Len(original)
    /\ ElementsOf(order) = ElementsOf(original)
    /\ Cardinality(ElementsOf(order)) = Len(order)

\* Every column holds the nodes it held at build time, each once.
ColumnsKeepTheirNodes ==
    /\ DOMAIN colMap = DOMAIN colMapOf(build.columns)
    /\ \A key \in DOMAIN colMap :
          /\ IsPermutation(colMap[key], colMapOf(build.columns)[key])
          /\ \A id \in ElementsOf(colMap[key]) : nodeById[id].colKey = key

\* C9: a pointer-down, pointer-move, pointer-up or tick leaves every column
\* a permutation of the nodes it held at build time, and changes nothing but
\* node y, the order of the dragged node's column and the snap position (and
\* with them the transitions and the link geometry): every node's id, type,
\* value, column, x, width and height, the built graph with its link list,
\* and the highlight are as before.
C9_DragFrame ==
    [][PointerOrTick =>
          /\ ColumnsKeepTheirNodes'
          /\ build' = build
          /\ DOMAIN nodeById' = DOMAIN nodeById
          /\ \A id \in DOMAIN nodeById :
                [nodeById'[id] EXCEPT !.y = nodeById[id].y] = nodeById[id]
          /\ \A key \in DOMAIN colMap :
                colMap'[key] # colMap[key] =>
                    dragging # <<>> /\ nodeById[dragging[1]].colKey = key
          /\ linkOpacity' = linkOpacity
          /\ nodeStyle' = nodeStyle
          /\ handlers' = handlers]_vars

\* A column reordered by a drag while a highlight is on.
C9_Witness ==
    /\ Shown /\ moves >= 1
    /\ \E key \in DOMAIN colMap : colMap[key] # colMapOf(build.columns)[key]
    /\ ActiveLinks # {}

\* Every node of every column is at the y its place in the column's order
\* stacks to from the top margin.
Stacked ==
    \A key \in DOMAIN colMap : \A i \in 1..Len(colMap[key]) :
        nodeById[colMap[key][i]].y = StackFrom(HeightsOf(colMap[key]), top)[i]

\* C10 as stated: after pointer-up, once every easing transition has
\* completed, every node of the column sits exactly at the y obtained by
\* stacking the column's final order from the top margin, so no two nodes of
\* the column overlap.
C10_SettledAtStack ==
    (Shown /\ drags >= 1 /\ dragging = <<>> /\ transitions = <<>>) => Stacked

\* The y the node's place in its column's current order stacks to.
StackedY(id) ==
    StackFrom(HeightsOf(colMap[nodeById[id].colKey]), top)
        [IndexIn(colMap[nodeById[id].colKey], id)]

\* C11 as stated: a released node returns to Idle at its committed snap
\* position: once the pointer is up and no easing is in flight, every node
\* that has been dragged sits at the stacked y of its slot in its column's
\* current order, never at a position the pointer or a superseded easing
\* left it at.
C11_ReleasedAtSnap ==
    (Shown /\ dragging = <<>> /\ transitions = <<>>) =>
        \A id \in DOMAIN snapY : nodeById[id].y = StackedY(id)

\* C12: the highlight after a click depends on that click alone.  A
\* background click leaves every link at opacity 0.35 and every node at
\* opacity 1 with the thin border, whatever was highlighted before; a click
\* on a node or link leaves every element either active or dimmed as the
\* traversal from the clicked start node says, with nothing of the previous
\* highlight or of the neutral style left.
C12_LastClickOnly ==
    [][/\ ClickBackground =>
              /\ \A i \in 1..Len(build.links) : linkOpacity'[i] = "0.35"
              /\ \A id \in DOMAIN nodeById :
                     nodeStyle'[id] = [opacity |-> "1", strokeWidth |-> "0.5"]
       /\ \A id \in DOMAIN nodeById :
              HighlightedFrom(id) =>
                  /\ linkOpacity' =
                         [i \in 1..Len(build.links) |->
                             IF i \in LinksWithin(ComponentOf(id)) THEN "0.9" ELSE "0.08"]
                  /\ nodeStyle' =
                         [n \in DOMAIN nodeById |->
                             IF n \in ComponentOf(id)
                             THEN [opacity |-> "1", strokeWidth |-> "2"]
                             ELSE [opacity |-> "0.3", strokeWidth |-> "0.5"]]]_vars

\* A diagram with a highlight on it: every link active, no node neutral.
C12_Witness ==
    /\ Shown
    /\ Len(linkOpacity) >= 2
    /\ \A i \in 1..Len(linkOpacity) : linkOpacity[i] = "0.9"
    /\ \A id \in DOMAIN nodeStyle : nodeStyle[id].strokeWidth = "2"

\* C13 as stated: pointer-down on a node cancels the easing it has in
\* flight, so from drag start to pointer-up the dragged node has no easing
\* and no tick can write its y: only pointer-moves do.
C13_NoEasingWhileDragged ==
    dragging # <<>> => dragging[1] \notin DOMAIN transitions

\* C14: a node has at most one easing in flight: a handler that starts one
\* (a sibling re-ease or the settle after release) interrupts the node's
\* earlier easing first, so the only tween left to write the node's y is
\* the one just started, from the node's present y.
C14_OneEasingPerNode ==
    \A id \in DOMAIN transitions : Len(transitions[id]) = 1

\* The orders a column's nodes can be put in.
OrdersOf(colNodes) ==
    {order \in [1..Len(colNodes) -> ElementsOf(colNodes)] :
        ElementsOf(order) = ElementsOf(colNodes)}

\* The y of every slot the node can be stacked at in its column.
SlotsOf(id) ==
    {StackFrom(HeightsOf(order), top)[IndexIn(order, id)] :
        order \in OrdersOf(colMap[nodeById[id].colKey])}

\* An easing was replaced: a sibling of the dragged node, eased part of the
\* way to one slot, is in flight again with a tween that has not ticked yet
\* and starts from where the interrupted one left it, between the slots.
C14_Witness ==
    /\ Shown
    /\ \E id \in DOMAIN transitions \ DOMAIN snapY :
           /\ Len(transitions[id]) = 1
           /\ transitions[id][1].ticks = 0
           /\ transitions[id][1].from = nodeById[id].y
           /\ nodeById[id].y \notin SlotsOf(id)

\* C15: the rendered link geometry is the router's output for the nodes'
\* current positions at the end of every handler: after the initial layout,
\* every pointer-move, the immediate commit of pointer-up and every tick
\* (the handlers that write a y), and so after the others too.
C15_LinksFollowNodes ==
    Shown => linkPaths = updateLinkPaths(build, nodeById)

\* A dragged node away from its slot while a sibling is part of the way
\* through its easing: pointer-move and tick have both written a y.
C15_Witness ==
    /\ Shown
    /\ dragging # <<>>
    /\ nodeById[dragging[1]].y \notin SlotsOf(dragging[1])
    /\ \E id \in DOMAIN transitions \ {dragging[1]} :
           transitions[id][1].ticks >= 1 /\ nodeById[id].y \notin SlotsOf(id)

\* The dragged node lies within the canvas: top margin <= y and
\* y + height <= top margin + inner height.
WithinCanvas(d) ==
    /\ NumGe(d.y, top)
    /\ NumLe(NumAdd(d.y, d.height), NumAdd(top, innerHeight))

DraggedColumn == colMap[nodeById[dragging[1]].colKey]

\* The slot centres of the other nodes of the dragged node's column, stacked
\* without it.
OtherSlotCenters ==
    slotCentersOf(HeightsOf(Without(DraggedColumn, dragging[1])),
                  StackFrom(HeightsOf(Without(DraggedColumn, dragging[1])), top))

\* The slots (from 1) whose centre lies above the centre of a node at d.
ExceededBy(d) ==
    {i \in 1..Len(OtherSlotCenters) :
        NumGt(NumAdd(d.y, NumDiv(d.height, Two)), OtherSlotCenters[i])}

\* The node's top is in neither snap zone.
OutsideSnapZones(d) == NumGt(d.y, topSnapZone) /\ NumLt(d.y, bottomSnapZone(d))

\* The step is a pointer-move that leaves the dragged node outside the snap
\* zones.
MoveOutsideSnapZones ==
    moves' # moves /\ OutsideSnapZones(nodeById'[dragging[1]])

\* The dragged node's index (from 0) in its column after the step.
NewIndex == IndexIn(colMap'[nodeById[dragging[1]].colKey], dragging[1]) - 1

\* The other nodes of the dragged node's column keep their relative order.
OthersKeepOrder ==
    Without(colMap'[nodeById[dragging[1]].colKey], dragging[1])
        = Without(DraggedColumn, dragging[1])

\* C17 as stated: on a pointer-move outside the snap zones the dragged
\* node's new index is the first index whose slot centre its centre exceeds,
\* scanning top to bottom (the index itself or the place after it), and the
\* other nodes keep their relative order.
C17_FirstExceededSlot ==
    [][MoveOutsideSnapZones =>
          \E d \in {nodeById'[dragging[1]]} :
              /\ ExceededBy(d) # {} =>
                     \E first \in ExceededBy(d) :
                         /\ \A i \in ExceededBy(d) : first <= i
                         /\ NewIndex \in {first - 1, first}
              /\ OthersKeepOrder]_vars

\* C17, amended: on a pointer-move outside the snap zones the dragged
\* node's new index is the insertion index of its centre among the slot
\* centres of the other nodes stacked without it: the number of slot centres
\* its centre exceeds, which is one past the last of them, all the slots
\* above it being exceeded too; after the handler the node is at that index
\* and the other nodes keep their relative order.
C17_InsertionIndex ==
    [][MoveOutsideSnapZones =>
          \E d \in {nodeById'[dragging[1]]} :
              /\ NewIndex = Cardinality(ExceededBy(d))
              /\ ExceededBy(d) = 1..NewIndex
              /\ OthersKeepOrder]_vars

\* The top node of a column of three has been dragged past the centres of
\* both other slots and is the last of the column, outside the snap zones.
C17_Witness ==
    /\ Shown
    /\ dragging # <<>>
    /\ moves >= 1
    /\ OutsideSnapZones(nodeById[dragging[1]])
    /\ Len(DraggedColumn) = 3
    /\ DraggedColumn[3] = dragging[1]
    /\ colMapOf(build.columns)[nodeById[dragging[1]].colKey][1] = dragging[1]

\* The centre of a node at d.
CenterOf(d) == NumAdd(d.y, NumDiv(d.height, Two))

\* The snap zones are the strips of half the node padding at the top and at
\* the bottom of the canvas.
InTopSnapZone(y) == NumLe(y, topSnapZone)
InBottomSnapZone(y) == NumGe(y, NumSub(NumAdd(top, innerHeight), NumMul(padding, Half)))

\* C18: after a pointer-move that leaves the dragged node's centre in the top
\* snap zone the node is the first of its column's order, and after one that
\* leaves its centre in the bottom snap zone it is the last, whatever the
\* slot centres of the other nodes are.
C18_SnapZonesForce ==
    [][moves' # moves =>
          \E d \in {nodeById'[dragging[1]]} :
              /\ InTopSnapZone(CenterOf(d)) => NewIndex = 0
              /\ InBottomSnapZone(CenterOf(d)) => NewIndex = Len(DraggedColumn) - 1]_vars

\* A dragged node, the first of its column at build time, with its centre in
\* the bottom snap zone and the last of its column.
C18_Witness ==
    /\ Shown
    /\ dragging # <<>>
    /\ moves >= 1
    /\ InBottomSnapZone(CenterOf(nodeById[dragging[1]]))
    /\ Len(DraggedColumn) >= 2
    /\ DraggedColumn[Len(DraggedColumn)] = dragging[1]
    /\ colMapOf(build.columns)[nodeById[dragging[1]].colKey][1] = dragging[1]

\* A dragged node with its centre in the top snap zone, the first of a
\* column it was not the first of at build time.
C18_WitnessTop ==
    /\ Shown
    /\ dragging # <<>>
    /\ moves >= 1
    /\ InTopSnapZone(CenterOf(nodeById[dragging[1]]))
    /\ Len(DraggedColumn) >= 2
    /\ DraggedColumn[1] = dragging[1]
    /\ colMapOf(build.columns)[nodeById[dragging[1]].colKey][1] # dragging[1]

\* The scale candidate of a column: (inner height - padding * (count - 1))
\* / (sum of the column's values).
CandidateOf(col) ==
    NumDiv(NumSub(innerHeight, NumMul(padding, NumOfInt(Len(col.nodes) - 1))),
           d3sum(col.nodes))

\* The candidates that are positive and finite.
PositiveCandidates ==
    {c \in {CandidateOf(build.columns[i]) : i \in 1..Len(build.columns)} :
        ~NotFinite(c) /\ NumGt(c, Zero)}

\* The fallback: inner height / largest node value if that is positive and
\* finite, else 1.
FallbackScale ==
    \E q \in {NumDiv(innerHeight, d3max(build.nodes))} :
        build.ky = IF ~NotFinite(q) /\ NumGt(q, Zero) THEN q ELSE One

\* C19 as stated: one scale ky serves every column; it is positive and
\* finite; it is the least of the columns' positive candidates, and the
\* fallback (inner height / largest node value, else 1) only when no column
\* has one; and every node's height, max(minimum height, value * ky), is
\* positive and finite.
C19_ScaleAndHeights ==
    Shown =>
        /\ ~NotFinite(build.ky) /\ NumGt(build.ky, Zero)
        /\ IF PositiveCandidates # {}
           THEN /\ build.ky \in PositiveCandidates
                /\ \A c \in PositiveCandidates : NumLe(build.ky, c)
           ELSE FallbackScale
        /\ \A id \in DOMAIN nodeById :
              /\ nodeById[id].height = NumMax(minHeight, NumMul(NodeOf(id).value, build.ky))
              /\ ~NotFinite(nodeById[id].height)
              /\ NumGt(nodeById[id].height, Zero)

\* The value a node is declared with: a row's parsed amount, the deficit,
\* the pool's inflow (income total + deficit), or the surplus.
Declared(n) ==
    CASE n.type = "income" ->
            toNum(incomeRows[CHOOSE i \in 1..Len(incomeRows) :
                                incomeRows[i].id = n.id[2]].value)
      [] n.type = "expense" ->
            toNum(expenseRows[CHOOSE i \in 1..Len(expenseRows) :
                                 expenseRows[i].id = n.id[2]].value)
      [] n.type = "debt" -> NumSub(build.totalExpense, build.totalIncome)
      [] n.type = "savings" -> NumSub(build.totalIncome, build.totalExpense)
      [] OTHER -> NumAdd(build.totalIncome, build.debtTotal)

\* The sum, in list order from 0, of the values of the links ls.
LinkSum(ls) == d3sum([k \in 1..Len(ls) |-> [value |-> build.links[ls[k]].value]])

\* C20: every node's value is the greatest of its declared value, the sum
\* of its inbound link values and the sum of its outbound link values: it
\* is one of the three and at least each of them, so at least the flow
\* entering the node and at least the flow leaving it.
C20_ValueIsMaxOfThree ==
    Shown => \A i \in 1..Len(build.nodes) :
        \E n \in {build.nodes[i]} :
            /\ n.value \in {Declared(n), LinkSum(InLinks(n.id)), LinkSum(OutLinks(n.id))}
            /\ NumGe(n.value, Declared(n))
            /\ NumGe(n.value, LinkSum(InLinks(n.id)))
            /\ NumGe(n.value, LinkSum(OutLinks(n.id)))

\* The recomputation has raised a value: the pool's outbound sum exceeds
\* its declared value, and the pool has the outbound sum as its value.
C20_Witness ==
    /\ Shown
    /\ \E i \in 1..Len(build.nodes) :
           /\ NumGt(LinkSum(OutLinks(build.nodes[i].id)), Declared(build.nodes[i]))
           /\ build.nodes[i].value = LinkSum(OutLinks(build.nodes[i].id))

\* The column the builder puts a node of the type in.
ColumnOfType(type) ==
    IF type \in {"income", "debt"} THEN "source"
    ELSE IF type = "pool" THEN "budget" ELSE "out"

\* The ids of the column's nodes in the order the builder made them.
BuilderOrder(key) ==
    [k \in 1..Len(SelectSeq(build.nodes, LAMBDA n : ColumnOfType(n.type) = key)) |->
        SelectSeq(build.nodes, LAMBDA n : ColumnOfType(n.type) = key)[k].id]

\* The diagram laid out as a render lays it out: each column in the
\* builder's order, every node at the stacked y of its slot, nothing dragged
\* and nothing easing.
FreshlyStacked ==
    /\ \A key \in DOMAIN colMap : colMap[key] = BuilderOrder(key)
    /\ \A id \in DOMAIN nodeById : nodeById[id].y = StackedY(id)
    /\ dragging = <<>>
    /\ transitions = <<>>

\* A diagram that replaced another and has not had a drag begin on it.
RerenderedUntouched == Shown /\ previous # <<>> /\ snapY = <<>>

\* A step of the effect running again, to show a diagram.
RerenderStep == Len(previous') > Len(previous) /\ handlers' = AllHandlers

\* A step of a handler or a timer of a discarded diagram.
StaleStep ==
    /\ Len(previous') = Len(previous)
    /\ \E i \in 1..Len(previous) : previous'[i].ran # previous[i].ran

\* C21: every render discards the interaction state of the previous
\* diagram.  A diagram that replaced another is laid out in the builder's
\* order at the freshly stacked y, with nothing dragged or easing, and stays
\* so until a drag begins on it, whatever the handlers and timers of the
\* discarded diagram do; right after the re-render no committed snap
\* position is left and every link and node has the neutral style; and no
\* drag move, drag end or easing tick of a discarded diagram changes a node,
\* a column order, a snap position, an easing or a link path of the diagram
\* on screen.
C21_RenderDiscards ==
    /\ [](RerenderedUntouched => FreshlyStacked)
    /\ [][RerenderStep =>
              /\ snapY' = <<>>
              /\ \A i \in DOMAIN linkOpacity' : linkOpacity'[i] = "0.35"
              /\ \A id \in DOMAIN nodeStyle' :
                     nodeStyle'[id] = [opacity |-> "1", strokeWidth |-> "0.5"]]_vars
    /\ [][StaleStep =>
              UNCHANGED <<nodeById, colMap, snapY, transitions, linkPaths>>]_vars

\* A diagram re-rendered over one that was highlighted, dragged, reordered
\* and easing, whose stale drag, release and tick have since run: it is
\* freshly stacked and neutral.
C21_Witness ==
    /\ RerenderedUntouched
    /\ FreshlyStacked
    /\ \A i \in DOMAIN linkOpacity : linkOpacity[i] = "0.35"
    /\ \E i \in 1..Len(previous) :
           /\ previous[i].ran = {"drag", "end", "tick"}
           /\ previous[i].highlighted
           /\ previous[i].build.shown = "diagram"
           /\ \E key \in DOMAIN previous[i].colMap :
                  previous[i].colMap[key] # colMapOf(previous[i].build.columns)[key]
           /\ DOMAIN nodeById \cap DOMAIN previous[i].nodeById # {}

\* C22 as stated: in the initial layout of every non-empty diagram each
\* column's stack fits inside the vertical bounds the drag clamp enforces:
\* every node has top margin <= y and y + height <= top margin + inner
\* height.
C22_InitialLayoutFits ==
    (Shown /\ drags = 0) => \A id \in DOMAIN nodeById : WithinCanvas(nodeById[id])

\* C23: on the budget page every change of period, custom days or a row
\* list cancels the pending autosave timer and starts a new one.  While the
\* page is mounted at most one timer is pending; a pending timer is the one
\* the latest change (or the mount) started, due AUTOSAVE_DELAY after it,
\* with the state of now as its payload; when none is pending, the timer of
\* the latest change has run, AUTOSAVE_DELAY or more after that change, and
\* wrote the state of now.  No timer outlives the page.  Every autosave
\* wrote the state current when it ran, AUTOSAVE_DELAY or more after the
\* latest change before it.
C23_Autosave ==
    /\ page.mounted =>
           /\ Cardinality(page.timers) <= 1
           /\ \A t \in page.timers :
                  /\ t.due = page.changedAt + AUTOSAVE_DELAY
                  /\ t.payload = Payload(page)
           /\ page.timers = {} =>
                  /\ page.autosaved # <<>>
                  /\ page.autosaved[1].at >= page.changedAt + AUTOSAVE_DELAY
                  /\ page.autosaved[1].payload = Payload(page)
    /\ ~page.mounted => page.timers = {}
    /\ page.autosaved # <<>> =>
           /\ page.autosaved[1].payload = page.autosaved[1].current
           /\ page.autosaved[1].at >= page.autosaved[1].changedAt + AUTOSAVE_DELAY

\* An autosave has written the state of a change that cancelled the timer
\* of the mount while it was pending: the write came AUTOSAVE_DELAY after
\* the change, and no timer is left.
C23_Witness ==
    /\ page.mounted
    /\ page.runs >= 2
    /\ page.timers = {}
    /\ page.autosaved # <<>>
    /\ page.autosaved[1].changedAt > 0
    /\ page.autosaved[1].changedAt < AUTOSAVE_DELAY
    /\ page.autosaved[1].at = page.autosaved[1].changedAt + AUTOSAVE_DELAY
    /\ page.stored = <<Payload(page)>>
    /\ page.period # "monthly"

====
